---- MODULE Spec2Model ----
(***************************************************************************)
(* Bookmark-to-label extraction (extract_labels_ultratax.py) and the label *)
(* editor (app.py) of Classification_Flask.                                *)
(*                                                                         *)
(* A Python str is modelled as a sequence of one-character strings, so     *)
(* that strip(), replace(), lower(), re.sub() and re.match() are computed  *)
(* character by character as the code computes them.                       *)
(***************************************************************************)
EXTENDS Integers, Sequences, FiniteSets, TLC

(***************************************************************************)
(* Characters and character classes                                        *)
(***************************************************************************)

UpperChars ==
    <<"A","B","C","D","E","F","G","H","I","J","K","L","M",
      "N","O","P","Q","R","S","T","U","V","W","X","Y","Z">>

LowerChars ==
    <<"a","b","c","d","e","f","g","h","i","j","k","l","m",
      "n","o","p","q","r","s","t","u","v","w","x","y","z">>

DigitChars == <<"0","1","2","3","4","5","6","7","8","9">>

\* U+2013 and U+2014, each one character of a str (named, as the module is ASCII)
EnDash == "ndash"

EmDash == "mdash"

Range(f) == {f[i] : i \in DOMAIN f}

UpperSet == Range(UpperChars)

LowerSet == Range(LowerChars)

DigitSet == Range(DigitChars)

\* \s of the re module, restricted to the white space the titles use
IsSpace(c) == c \in {" ", "\t", "\n"}

\* \d of the re module (ASCII digits)
IsDigit(c) == c \in DigitSet

IsUpper(c) == c \in UpperSet

IsLower(c) == c \in LowerSet

\* the character class [A-Za-z0-9_()] of prefixed_page_match
PrefixCharSet == UpperSet \cup LowerSet \cup DigitSet \cup {"_", "(", ")"}

IsPrefixChar(c) == c \in PrefixCharSet

\* the character class [ivxlcdm] of the page-marker pattern
RomanLowerSet == {"i", "v", "x", "l", "c", "d", "m"}

IsRomanLower(c) == c \in RomanLowerSet

\* a class of separators without the hyphen
IsSpaceOrHyphen_SpaceOnly(c) == IsSpace(c)

\* the character class [\s\-] of _normalize_title_basic
IsSpaceOrHyphen(c) == IsSpace(c) \/ c = "-"

IndexIn(seq, c) == CHOOSE i \in DOMAIN seq : seq[i] = c

\* str.lower() on one character
LowerChar(c) == IF IsUpper(c) THEN LowerChars[IndexIn(UpperChars, c)] ELSE c

\* str.upper() on one character
UpperChar(c) == IF IsLower(c) THEN UpperChars[IndexIn(LowerChars, c)] ELSE c

DigitValue(c) == IndexIn(DigitChars, c) - 1

(***************************************************************************)
(* str methods                                                             *)
(***************************************************************************)

\* s.lower()
Lower(s) == [i \in DOMAIN s |-> LowerChar(s[i])]

\* s.upper()
Upper(s) == [i \in DOMAIN s |-> UpperChar(s[i])]

\* s.replace(a, b) for single characters a and b
Replace(s, a, b) == [i \in DOMAIN s |-> IF s[i] = a THEN b ELSE s[i]]

RECURSIVE LStripSpace(_)
\* s.lstrip() and a leading \s* of a pattern
LStripSpace(s) ==
    IF s # <<>> /\ IsSpace(Head(s)) THEN LStripSpace(Tail(s)) ELSE s

RECURSIVE RStripSpace(_)
\* s.rstrip() and a trailing \s* of a pattern
RStripSpace(s) ==
    IF s # <<>> /\ IsSpace(s[Len(s)])
    THEN RStripSpace(SubSeq(s, 1, Len(s) - 1))
    ELSE s

\* s.strip()
Strip(s) == RStripSpace(LStripSpace(s))

RECURSIVE StripUnderscore(_)
\* s.strip("_")
StripUnderscore(s) ==
    IF s # <<>> /\ Head(s) = "_" THEN StripUnderscore(Tail(s))
    ELSE IF s # <<>> /\ s[Len(s)] = "_"
         THEN StripUnderscore(SubSeq(s, 1, Len(s) - 1))
         ELSE s

\* a substitution that deletes the runs instead of replacing them
SubSpaceHyphenRuns_Removes(s) == SelectSeq(s, LAMBDA c : ~IsSpaceOrHyphen(c))

RECURSIVE SubSpaceHyphenRuns(_)
\* re.sub(r"[\s\-]+", "_", s)
SubSpaceHyphenRuns(s) ==
    IF s = <<>> THEN <<>>
    ELSE IF IsSpaceOrHyphen(Head(s))
         THEN IF Len(s) >= 2 /\ IsSpaceOrHyphen(s[2])
              THEN SubSpaceHyphenRuns(Tail(s))
              ELSE <<"_">> \o SubSpaceHyphenRuns(Tail(s))
         ELSE <<Head(s)>> \o SubSpaceHyphenRuns(Tail(s))

RECURSIVE SubUnderscoreRuns(_)
\* re.sub(r"_+", "_", s)
SubUnderscoreRuns(s) ==
    IF s = <<>> THEN <<>>
    ELSE IF Head(s) = "_" /\ Len(s) >= 2 /\ s[2] = "_"
         THEN SubUnderscoreRuns(Tail(s))
         ELSE <<Head(s)>> \o SubUnderscoreRuns(Tail(s))

\* every character of s lies in the character class S
AllChars(s, S) == \A i \in DOMAIN s : s[i] \in S

\* s.startswith(p)
StartsWith(s, p) == Len(s) >= Len(p) /\ SubSeq(s, 1, Len(p)) = p

\* s[n:]
Drop(s, n) == SubSeq(s, n + 1, Len(s))

RECURSIVE ParseInt(_)
\* int(tok) for a string of decimal digits
ParseInt(tok) ==
    IF tok = <<>> THEN 0
    ELSE 10 * ParseInt(SubSeq(tok, 1, Len(tok) - 1)) + DigitValue(tok[Len(tok)])

\* page numbers formatted with two digits at least
FormatInt_Padded(n) ==
    IF n < 10 THEN <<"0", DigitChars[n + 1]>>
    ELSE <<DigitChars[((n \div 10) % 10) + 1], DigitChars[(n % 10) + 1]>>

RECURSIVE FormatInt(_)
\* str(n) for n >= 0, as the f-string f"P{n}" formats it
FormatInt(n) ==
    IF n < 10 THEN <<DigitChars[n + 1]>>
    ELSE FormatInt(n \div 10) \o <<DigitChars[(n % 10) + 1]>>

(***************************************************************************)
(* Title normalisation                                                     *)
(***************************************************************************)

\* a sanitisation that folds the case as well
NormalizeTitleBasic_Lowercase(title) ==
    LET t1   == Replace(title, ",", " ")
        norm == SubSpaceHyphenRuns(Strip(t1))
    IN  Lower(StripUnderscore(SubUnderscoreRuns(norm)))

\* _normalize_title_basic
NormalizeTitleBasic(title) ==
    LET t1   == Replace(title, ",", " ")
        norm == SubSpaceHyphenRuns(Strip(t1))
    IN  StripUnderscore(SubUnderscoreRuns(norm))

\* vals.get(ch, 0) of _roman_to_int
RomanValue(ch) ==
    CASE ch = "I" -> 1
      [] ch = "V" -> 5
      [] ch = "X" -> 10
      [] ch = "L" -> 50
      [] ch = "C" -> 100
      [] ch = "D" -> 500
      [] ch = "M" -> 1000
      [] OTHER -> 0

RECURSIVE RomanScan(_, _, _)
\* the for loop of _roman_to_int over the characters left, with total and prev
RomanScan(s, total, prev) ==
    IF s = <<>> THEN total
    ELSE LET v == RomanValue(Head(s))
         IN  IF v > prev
             THEN RomanScan(Tail(s), total + v - 2 * prev, v)
             ELSE RomanScan(Tail(s), total + v, v)

\* a decoder that reads upper-case symbols only
RomanToInt_CaseSensitive(s) == RomanScan(s, 0, 0)

\* _roman_to_int
RomanToInt(s) == RomanScan(Upper(s), 0, 0)

\* the alternatives p(?:age)?|pg|p\. of the page-marker pattern
PagePrefixes == {<<"p">>, <<"p","a","g","e">>, <<"p","g">>, <<"p",".">>}

\* a page-marker pattern with \s+ between the prefix and the number
PageMarkerToken_NeedsSpace(low) ==
    LET s    == LStripSpace(low)
        toks == {RStripSpace(LStripSpace(Drop(s, Len(p)))) :
                    p \in {q \in PagePrefixes :
                              StartsWith(s, q) /\ Len(s) > Len(q) /\ IsSpace(s[Len(q) + 1])}}
        ok   == {t \in toks : t # <<>> /\ (AllChars(t, RomanLowerSet) \/ AllChars(t, DigitSet))}
    IN  IF ok = {} THEN <<>> ELSE CHOOSE t \in ok : TRUE

\* group(1) of re.match(r"^\s*(?:p(?:age)?|pg|p\.)\s*([ivxlcdm]+|\d+)\s*$", low),
\* <<>> when the pattern does not match (the group itself is never empty)
PageMarkerToken(low) ==
    LET s    == LStripSpace(low)
        toks == {RStripSpace(LStripSpace(Drop(s, Len(p)))) :
                    p \in {q \in PagePrefixes : StartsWith(s, q)}}
        ok   == {t \in toks : t # <<>> /\ (AllChars(t, RomanLowerSet) \/ AllChars(t, DigitSet))}
    IN  IF ok = {} THEN <<>> ELSE CHOOSE t \in ok : TRUE

\* _normalize_title without its page-marker branch
NormalizeTitle_NoPageMarker(title) ==
    NormalizeTitleBasic(Replace(Replace(Strip(title), EnDash, "-"), EmDash, "-"))

\* _normalize_title
NormalizeTitle(title) ==
    LET raw == Replace(Replace(Strip(title), EnDash, "-"), EmDash, "-")
        low == Lower(raw)
        tok == PageMarkerToken(low)
    IN  IF tok # <<>>
        THEN IF AllChars(tok, DigitSet)
             THEN <<"P">> \o FormatInt(ParseInt(tok))
             ELSE <<"P">> \o FormatInt(RomanToInt(tok))
        ELSE NormalizeTitleBasic(raw)

(***************************************************************************)
(* Optional values, labels and their patterns                              *)
(***************************************************************************)

\* Python's None and a present value: a sequence of length 0 or 1
None == <<>>

Some(x) == <<x>>

\* the sentinel label and family of an unlabelled page
Other == <<"O","t","h","e","r">>

\* the family argument app.upload and main() pass to build_bookmark_gt
Family == "UltraTax"

\* the length of the longest run of digits that ends lbl
TrailingDigits(lbl) ==
    LET stops == {i \in DOMAIN lbl : ~IsDigit(lbl[i])}
    IN  IF stops = {} THEN Len(lbl)
        ELSE Len(lbl) - (CHOOSE i \in stops : \A j \in stops : j <= i)

\* the suffix _P(\d+)$ of a label: "P" is no digit, so the digits of the
\* group are the whole trailing run of digits
HasPSuffix(lbl) ==
    LET k == TrailingDigits(lbl)
        n == Len(lbl)
    IN  k >= 1 /\ n >= k + 2 /\ lbl[n - k] = "P" /\ lbl[n - k - 1] = "_"

\* what precedes the suffix _P(\d+)
BeforePSuffix(lbl) == SubSeq(lbl, 1, Len(lbl) - TrailingDigits(lbl) - 2)

\* is_page_suffix: re.match(r"^P\d+$", lbl)
IsPageSuffix(lbl) ==
    /\ Len(lbl) >= 2
    /\ Head(lbl) = "P"
    /\ AllChars(Tail(lbl), DigitSet)

\* is_base_section
IsBaseSection(lbl) ==
    IF lbl = Other THEN FALSE
    ELSE IF IsPageSuffix(lbl) THEN FALSE
    ELSE TRUE

\* prefixed_page_match that never matches
PrefixedPageMatch_Never(lbl) == None

\* prefixed_page_match: group(1) of re.match(r"^([A-Za-z0-9_()]+)_P(\d+)$", lbl)
\* as Some(prefix), None when there is no match
PrefixedPageMatch(lbl) ==
    LET pre == BeforePSuffix(lbl)
    IN  IF HasPSuffix(lbl) /\ pre # <<>> /\ AllChars(pre, PrefixCharSet)
        THEN Some(pre)
        ELSE None

\* group(1) of re.match(r"^(.+)_P(\d+)$", lbl) in _apply_multipage_flags and
\* _derive_base_and_page, as Some(base); "." matches all but a newline
MultipageBase(lbl) ==
    LET base == BeforePSuffix(lbl)
    IN  IF HasPSuffix(lbl) /\ base # <<>> /\ \A i \in DOMAIN base : base[i] # "\n"
        THEN Some(base)
        ELSE None

\* the truth value of a str-or-None in a condition: None and "" are false
Truthy(opt) == opt # None /\ opt[1] # <<>>

(***************************************************************************)
(* Page records                                                            *)
(***************************************************************************)

\* default records filed under the family of the bookmarks
DefaultPage_InFamily(i) ==
    [page |-> i, family |-> Family, label |-> Other, auto_label |-> Other,
     updated_label |-> FALSE, multipage |-> FALSE, raw_label |-> Other]

\* default records numbered from 0, as list indices are
DefaultPage_ZeroBased(i) ==
    [page |-> i - 1, family |-> "Other", label |-> Other, auto_label |-> Other,
     updated_label |-> FALSE, multipage |-> FALSE, raw_label |-> Other]

\* the default record of page i (build_bookmark_gt, "Other/Other for every page")
DefaultPage(i) ==
    [page |-> i, family |-> "Other", label |-> Other, auto_label |-> Other,
     updated_label |-> FALSE, multipage |-> FALSE, raw_label |-> Other]

\* the record of a page that received the bookmark label lbl
BookmarkPage(pno, lbl, raw_lbl) ==
    [page |-> pno, family |-> Family, label |-> lbl, auto_label |-> lbl,
     updated_label |-> FALSE, multipage |-> FALSE, raw_label |-> raw_lbl]

\* the selection with `depth > cur[1]`: the first of the deepest wins
SelectUpdate_Strict(best, label, page_no, depth) ==
    IF page_no \notin DOMAIN best \/ depth > best[page_no].depth
    THEN [q \in DOMAIN best \cup {page_no} |->
            IF q = page_no THEN [label |-> label, depth |-> depth] ELSE best[q]]
    ELSE best

\* "choose deepest label per page": one iteration of the loop over entries,
\* best being the dict best_for_page (a function on the pages it has a key for)
SelectUpdate(best, label, page_no, depth) ==
    IF page_no \notin DOMAIN best \/ depth >= best[page_no].depth
    THEN [q \in DOMAIN best \cup {page_no} |->
            IF q = page_no THEN [label |-> label, depth |-> depth] ELSE best[q]]
    ELSE best

\* the second pass without the count: `if m:`
MultipageFlag_AnySuffix(m, count) == m # None

\* the second pass of _apply_multipage_flags on one entry: m is the match of
\* its label and count is base_counts.get(m.group(1), 0)
MultipageFlag(m, count) == m # None /\ count >= 2

\* a flag pass whose first pass counts only the pages not flagged yet
ApplyMultipageFlags_CountUnflagged(pgs) ==
    LET match == [i \in DOMAIN pgs |-> MultipageBase(pgs[i].label)]
        base_count(m) == Cardinality({j \in DOMAIN pgs : match[j] = m /\ ~pgs[j].multipage})
    IN  [i \in DOMAIN pgs |->
            [pgs[i] EXCEPT !.multipage = MultipageFlag(match[i], base_count(match[i]))]]

\* _apply_multipage_flags: the first pass matches every label and counts the
\* pages of each base, the second pass sets the flags
ApplyMultipageFlags(pgs) ==
    LET match == [i \in DOMAIN pgs |-> MultipageBase(pgs[i].label)]
        base_count(m) == Cardinality({j \in DOMAIN pgs : match[j] = m})
    IN  [i \in DOMAIN pgs |->
            [pgs[i] EXCEPT !.multipage = MultipageFlag(match[i], base_count(match[i]))]]

(***************************************************************************)
(* The grouping pass of build_bookmark_gt                                  *)
(***************************************************************************)

\* a grouping pass that skips no entry
SkipsEntry_Never(e) == FALSE

\* `if fam != family: continue`
SkipsEntry(e) == e.family # Family

\* new_val of a base section that gets no page suffix
BaseSectionValue_NoSuffix(lbl) == lbl

\* new_val of a base section that is numbered as a second page
BaseSectionValue_P2(lbl) == lbl \o <<"_", "P", "2">>

\* new_val of a base section: f"{current_prefix}_P1"
BaseSectionValue(lbl) == lbl \o <<"_", "P", "1">>

\* new_val of a page under a prefix that restarts at P1
ContinuationValue_P1(prefix, lbl) == prefix \o <<"_", "P", "1">>

\* new_val of a page under a prefix: f"{current_prefix}_{lbl}"
ContinuationValue(prefix, lbl) == prefix \o <<"_">> \o lbl

\* The iteration without `current_prefix = None` at its end
GroupEntry_NoInterrupt(e, cp) ==
    IF SkipsEntry(e) THEN [entry |-> e, prefix |-> cp]
    ELSE IF PrefixedPageMatch(e.label) # None
    THEN [entry |-> e, prefix |-> PrefixedPageMatch(e.label)]
    ELSE IF IsBaseSection(e.label)
    THEN [entry  |-> [e EXCEPT !.label = BaseSectionValue(e.label),
                               !.auto_label = BaseSectionValue(e.label)],
          prefix |-> Some(e.label)]
    ELSE IF IsPageSuffix(e.label) /\ Truthy(cp)
    THEN [entry  |-> [e EXCEPT !.label = ContinuationValue(cp[1], e.label),
                               !.auto_label = ContinuationValue(cp[1], e.label)],
          prefix |-> cp]
    ELSE [entry |-> e, prefix |-> cp]

\* One iteration of `for entry in pages` with current_prefix = cp: the entry as
\* the iteration leaves it, and current_prefix after it
GroupEntry(e, cp) ==
    IF SkipsEntry(e) THEN [entry |-> e, prefix |-> cp]
    ELSE IF PrefixedPageMatch(e.label) # None
    THEN [entry |-> e, prefix |-> PrefixedPageMatch(e.label)]
    ELSE IF IsBaseSection(e.label)
    THEN [entry  |-> [e EXCEPT !.label = BaseSectionValue(e.label),
                               !.auto_label = BaseSectionValue(e.label)],
          prefix |-> Some(e.label)]
    ELSE IF IsPageSuffix(e.label) /\ Truthy(cp)
    THEN [entry  |-> [e EXCEPT !.label = ContinuationValue(cp[1], e.label),
                               !.auto_label = ContinuationValue(cp[1], e.label)],
          prefix |-> cp]
    ELSE [entry |-> e, prefix |-> None]

(***************************************************************************)
(* Inputs                                                                  *)
(***************************************************************************)

\* the largest number of pages of a document
MaxPages == 3

\* the deepest nesting of a bookmark
MaxDepth == 1

\* the longest entry list of the selection loop taken on its own
MaxEntries == 3

\* the largest number of pages of a document the editor is run on
MaxEditPages == 2

TitleScheduleA == <<"S","c","h","e","d","u","l","e"," ","A">>

TitlePage2 == <<"P","a","g","e"," ","2">>

TitleSchAP1 == <<"S","c","h","_","A","_","P","1">>

Sch_A_P1 == <<"S","c","h","_","A","_","P","1">>

Sch_A_P2 == <<"S","c","h","_","A","_","P","2">>

Schedule_A_P1 == <<"S","c","h","e","d","u","l","e","_","A","_","P","1">>

Schedule_A_P2 == <<"S","c","h","e","d","u","l","e","_","A","_","P","2">>

P2 == <<"P","2">>

\* the title of a bookmark that separates sections
TitleSeparator == <<"-", "-", "-">>

\* bookmark titles of the documents
Titles == {TitleScheduleA, TitlePage2, TitleSchAP1, Other}

Depths == 0..MaxDepth

OptionOf(S) == {None} \cup {Some(x) : x \in S}

\* _normalize_title(raw_title) of every title of the documents
NormalizedTitle == [t \in Titles \cup {TitleSeparator} |-> NormalizeTitle(t)]

\* raw_title.strip() of every title of the documents
StrippedTitle == [t \in Titles \cup {TitleSeparator} |-> Strip(t)]

EmptyDict == <<>>

(***************************************************************************)
(* State                                                                   *)
(***************************************************************************)

VARIABLES
    pc,                 \* where build_bookmark_gt stands; "ready": mapping written
    total_pages,        \* len(reader.pages)
    best_for_page,      \* dict page_no -> (label, depth), normalised titles
    best_for_page_raw,  \* dict page_no -> (label, depth), raw titles
    pages,              \* the pages array (of the call, then of the mapping file)
    raw_pages,          \* the bookmarks array, None without an outline
    current_prefix,     \* current_prefix of the grouping pass
    idx,                \* index of the next entry of `for entry in pages`
    entries,            \* the entry list of the selection loop taken on its own
    sel,                \* index of its next entry
    response,           \* the last response of the editor's API
    outline,            \* the outline objects of the walk taken on its own
    page_ref_map,       \* page_ref_map of that walk
    normalize,          \* its normalize argument
    stack,              \* its sibling loops, innermost last: (cur, depth)
    source,             \* the node each collected entry came from
    raw_title,          \* a title given to _normalize_title
    results,            \* the results of normalising it, and of normalising again
    numeral,            \* a string given to _roman_to_int
    decoded,            \* what it returned, None before the call
    source_dir,         \* the names of the files in Source_PDF
    mappings,           \* the pages array of each document's mapping file
    aliases,            \* aliases.json: alias label -> canonical label
    curated,            \* the records of dataset/v2/index/v2.jsonl, in file order
    active_version,     \* dataset/v2/faiss/ACTIVE_VERSION.txt, None when absent
    built_indexes,      \* the versions with an index and id map in dataset/v2/faiss
    legacy_active,      \* dataset/v1/faiss/ACTIVE_VERSION.txt, None when absent
    legacy_indexes,     \* the versions with an index and id map in dataset/v1/faiss
    index_cache,        \* _INDEX and _IDMAP of suggest.py: the version loaded, or None
    requests,           \* the api_update_label calls under way, one per thread
    file_text           \* the text of the mapping file they read and write

vars == <<pc, total_pages, best_for_page, best_for_page_raw, pages, raw_pages,
          current_prefix, idx, entries, sel, response,
          outline, page_ref_map, normalize, stack, source, raw_title, results,
          numeral, decoded, source_dir, mappings, aliases, curated,
          active_version, built_indexes, legacy_active, legacy_indexes, index_cache,
          requests, file_text>>

walker == <<outline, page_ref_map, normalize, stack, source>>

normalizer == <<raw_title, results>>

decoder == <<numeral, decoded>>

\* the state outside the extraction, the walk and the normaliser
\* the files of the server outside the mapping
\* the suggestion engine: its files and its module-level cache
suggester == <<active_version, built_indexes, legacy_active, legacy_indexes, index_cache>>

server == <<source_dir, mappings, aliases, curated, suggester>>

\* the concurrent requests and the file they share
handlers == <<requests, file_text>>

rest == <<decoder, server, handlers>>

NoResponse == [code |-> 0]

\* no outline walk is under way
WalkerIdle ==
    /\ outline = <<>>
    /\ page_ref_map = <<>>
    /\ normalize = TRUE
    /\ stack = <<>>
    /\ source = <<>>

\* no title has been handed to the normaliser
NormalizerIdle ==
    /\ raw_title = <<>>
    /\ results = <<>>

\* _roman_to_int has not been called
DecoderIdle ==
    /\ numeral = <<>>
    /\ decoded = None

\* nothing outside the extraction, the walk and the normaliser is under way
\* no index has been built and none is loaded
SuggesterIdle ==
    /\ active_version = None
    /\ built_indexes = {}
    /\ legacy_active = None
    /\ legacy_indexes = {}
    /\ index_cache = None

\* the server is up and has received no request
ServerIdle ==
    /\ source_dir = {}
    /\ mappings = EmptyDict
    /\ aliases = EmptyDict
    /\ curated = <<>>
    /\ SuggesterIdle

\* no request is under way
HandlersIdle ==
    /\ requests = <<>>
    /\ file_text = [length |-> 0, json |-> FALSE]

RestIdle ==
    /\ DecoderIdle
    /\ ServerIdle
    /\ HandlersIdle

\* build_bookmark_gt is entered for a document of total_pages pages
Init ==
    /\ pc = "start"
    /\ total_pages \in 0..MaxPages
    /\ best_for_page = EmptyDict
    /\ best_for_page_raw = EmptyDict
    /\ pages = <<>>
    /\ raw_pages = None
    /\ current_prefix = None
    /\ idx = 0
    /\ entries = <<>>
    /\ sel = 0
    /\ response = NoResponse
    /\ WalkerIdle
    /\ NormalizerIdle
    /\ RestIdle

(***************************************************************************)
(* build_bookmark_gt                                                       *)
(***************************************************************************)

DefaultPages == [i \in 1..total_pages |-> DefaultPage(i)]

\* No /Outlines, or an outline without /First: the defaults go to the
\* grouping pass and there is no bookmarks array
OpenNoOutline ==
    /\ pc = "start"
    /\ pages' = DefaultPages
    /\ raw_pages' = None
    /\ current_prefix' = None
    /\ idx' = 1
    /\ pc' = "group"
    /\ UNCHANGED <<rest, walker, normalizer, total_pages, best_for_page, best_for_page_raw, entries, sel, response>>

\* An outline with a first node: the page map is built and the walk starts
OpenOutline ==
    /\ pc = "start"
    /\ pages' = DefaultPages
    /\ best_for_page' = EmptyDict
    /\ best_for_page_raw' = EmptyDict
    /\ pc' = "walk"
    /\ UNCHANGED <<rest, walker, normalizer, total_pages, raw_pages, current_prefix, idx, entries, sel, response>>

\* node_to_entries on one outline node, in both traversals, and the iteration
\* of each selection loop on the entry the node contributes.  title is the
\* node's /Title (None when absent), page_no what _page_number_from_dest gives
\* for its destination (None when absent or unresolvable).  The two traversals
\* visit the same nodes in the same order and each selection loop reads its
\* own list only, so taking the four loops node by node changes no result.
VisitNode(titles, title, page_no, depth) ==
    /\ pc = "walk"
    /\ title \in OptionOf(titles)
    /\ LET label == IF title = None THEN None ELSE Some(NormalizedTitle[title[1]])
           raw   == IF title = None THEN None ELSE Some(StrippedTitle[title[1]])
       IN  /\ best_for_page' =
                IF Truthy(label) /\ page_no # None
                THEN SelectUpdate(best_for_page, label[1], page_no[1], depth)
                ELSE best_for_page
           /\ best_for_page_raw' =
                IF Truthy(raw) /\ page_no # None
                THEN SelectUpdate(best_for_page_raw, raw[1], page_no[1], depth)
                ELSE best_for_page_raw
    /\ UNCHANGED <<rest, walker, normalizer, pc, total_pages, pages, raw_pages, current_prefix, idx,
                   entries, sel, response>>

\* raw_lbl = best_for_page_raw.get(pno, ("Other", 0))[0]
RawLabelFor(pno) ==
    IF pno \in DOMAIN best_for_page_raw THEN best_for_page_raw[pno].label ELSE Other

\* The traversals are over: the selected labels are written into pages and
\* the bookmarks array is built from the raw selection
AssignPages ==
    /\ pc = "walk"
    /\ pages' = [i \in 1..total_pages |->
                    IF i \in DOMAIN best_for_page
                    THEN BookmarkPage(i, best_for_page[i].label, RawLabelFor(i))
                    ELSE pages[i]]
    /\ raw_pages' = Some([i \in 1..total_pages |->
                    IF i \in DOMAIN best_for_page_raw
                    THEN [page |-> i, family |-> Family,
                          label |-> best_for_page_raw[i].label]
                    ELSE [page |-> i, family |-> "Other", label |-> Other]])
    /\ best_for_page' = EmptyDict
    /\ best_for_page_raw' = EmptyDict
    /\ current_prefix' = None
    /\ idx' = 1
    /\ pc' = "group"
    /\ UNCHANGED <<rest, walker, normalizer, total_pages, entries, sel, response>>

\* One iteration of the grouping pass
GroupStep ==
    /\ pc = "group"
    /\ idx <= Len(pages)
    /\ LET r == GroupEntry(pages[idx], current_prefix)
       IN  /\ pages' = [pages EXCEPT ![idx] = r.entry]
           /\ current_prefix' = r.prefix
    /\ idx' = idx + 1
    /\ UNCHANGED <<rest, walker, normalizer, pc, total_pages, best_for_page, best_for_page_raw, raw_pages,
                   entries, sel, response>>

\* The grouping pass is over: the multipage flags are computed and the mapping
\* is written
ApplyFlagsAndSave ==
    /\ pc = "group"
    /\ idx > Len(pages)
    /\ pages' = ApplyMultipageFlags(pages)
    /\ pc' = "ready"
    /\ UNCHANGED <<rest, walker, normalizer, total_pages, best_for_page, best_for_page_raw, raw_pages,
                   current_prefix, idx, entries, sel, response>>

PageNos == OptionOf(1..total_pages)

Visit ==
    \E title \in OptionOf(Titles), page_no \in PageNos, depth \in Depths :
        VisitNode(Titles, title, page_no, depth)

Next ==
    \/ OpenNoOutline
    \/ OpenOutline
    \/ Visit
    \/ AssignPages
    \/ GroupStep
    \/ ApplyFlagsAndSave

Spec == Init /\ [][Next]_vars

(***************************************************************************)
(* The selection loop on its own                                           *)
(***************************************************************************)

\* labels, pages and depths of the entry lists
SelLabels == {<<"S","c","h","_","A">>, <<"P","1">>}

SelPages == {1, 2}

EntryLists ==
    UNION {[1..n -> [label : SelLabels, page : SelPages, depth : Depths]] :
              n \in 0..MaxEntries}

\* _collect_outline_entries has returned entries for a two-page document
InitSelect ==
    /\ pc = "select"
    /\ total_pages = 2
    /\ entries \in EntryLists
    /\ sel = 1
    /\ best_for_page = EmptyDict
    /\ best_for_page_raw = EmptyDict
    /\ pages = <<>>
    /\ raw_pages = None
    /\ current_prefix = None
    /\ idx = 0
    /\ response = NoResponse
    /\ WalkerIdle
    /\ NormalizerIdle
    /\ RestIdle

\* One iteration of `for label, page_no, depth in entries`
SelectStep ==
    /\ pc = "select"
    /\ sel <= Len(entries)
    /\ best_for_page' = SelectUpdate(best_for_page, entries[sel].label,
                                     entries[sel].page, entries[sel].depth)
    /\ sel' = sel + 1
    /\ UNCHANGED <<rest, walker, normalizer, pc, total_pages, best_for_page_raw, pages, raw_pages,
                   current_prefix, idx, entries, response>>

NextSelect == SelectStep

SpecSelect == InitSelect /\ [][NextSelect]_vars

(***************************************************************************)
(* The label editor (app.py)                                               *)
(***************************************************************************)

\* the entry with its label set by the curator
UpdatedEntry_AlsoAuto(e, new_label) ==
    [e EXCEPT !.label = new_label, !.auto_label = new_label, !.updated_label = TRUE]

\* the entry with its label set but not marked as updated
UpdatedEntry_NoMark(e, new_label) == [e EXCEPT !.label = new_label]

\* e["label"] = new_label; e["updated_label"] = True
UpdatedEntry(e, new_label) ==
    [e EXCEPT !.label = new_label, !.updated_label = TRUE]

\* the entry restored without clearing updated_label
RestoredEntry_KeepsMark(e) == [e EXCEPT !.label = e.auto_label]

\* e["label"] = e.get("auto_label", e.get("label")); e["updated_label"] = False
RestoredEntry(e) ==
    [e EXCEPT !.label = e.auto_label, !.updated_label = FALSE]

\* the submitted label taken as it is
PayloadLabel_NoStrip(payload_label) ==
    IF payload_label = None THEN <<>> ELSE payload_label[1]

\* (payload.get("label") or "").strip(), payload_label being the value of the
\* key "label" (None when missing or null)
PayloadLabel(payload_label) ==
    Strip(IF payload_label = None THEN <<>> ELSE payload_label[1])

\* the index of the first entry e of pgs with int(e.get("page")) == page, 0 if none
FirstEntryOf(pgs, page) ==
    LET hits == {i \in DOMAIN pgs : pgs[i].page = page}
    IN  IF hits = {} THEN 0 ELSE CHOOSE i \in hits : \A j \in hits : i <= j

\* the mapping file exists (_resolve_json_path finds it)
MappingExists == pc = "ready"

Respond(code, label) == [code |-> code, label |-> label]

EditorFrame == UNCHANGED <<rest, walker, normalizer, pc, total_pages, best_for_page, best_for_page_raw,
                           raw_pages, current_prefix, idx, entries, sel>>

\* POST /api/update_label/<stem>/<page> with the JSON label payload_label
ApiUpdateLabel(page, payload_label) ==
    /\ EditorFrame
    /\ LET new_label == PayloadLabel(payload_label)
           k         == FirstEntryOf(pages, page)
       IN  IF ~MappingExists
           THEN pages' = pages /\ response' = Respond(404, None)
           ELSE IF new_label = <<>>
           THEN pages' = pages /\ response' = Respond(400, None)
           ELSE IF k = 0
           THEN pages' = pages /\ response' = Respond(404, None)
           ELSE /\ response' = Respond(200, None)
                /\ pages' = ApplyMultipageFlags(
                        [pages EXCEPT ![k] = UpdatedEntry(@, new_label)])

\* POST /api/restore_label/<stem>/<page>
ApiRestoreLabel(page) ==
    /\ EditorFrame
    /\ LET k == FirstEntryOf(pages, page)
       IN  IF ~MappingExists
           THEN pages' = pages /\ response' = Respond(404, None)
           ELSE IF k = 0
           THEN pages' = pages /\ response' = Respond(404, None)
           ELSE /\ pages' = ApplyMultipageFlags([pages EXCEPT ![k] = RestoredEntry(@)])
                /\ response' = Respond(200, Some(RestoredEntry(pages[k]).label))

\* POST /api/restore_all/<stem>
ApiRestoreAll ==
    /\ EditorFrame
    /\ IF ~MappingExists
       THEN pages' = pages /\ response' = Respond(404, None)
       ELSE /\ pages' = ApplyMultipageFlags([i \in DOMAIN pages |-> RestoredEntry(pages[i])])
            /\ response' = Respond(200, None)

\* a form loop that sets the label only
FormEntry_LabelOnly(e, field) ==
    IF field = None THEN e
    ELSE IF Strip(field[1]) # <<>> /\ Strip(field[1]) # e.label
         THEN [e EXCEPT !.label = Strip(field[1])]
         ELSE e

\* the entry after the form loop of edit(): field is the value of label_<page>,
\* None when the form has no such field
FormEntry(e, field) ==
    IF field = None THEN e
    ELSE IF Strip(field[1]) # <<>> /\ Strip(field[1]) # e.label
         THEN UpdatedEntry(e, Strip(field[1]))
         ELSE e

\* POST /edit/<stem> with the form fields form[page]; the answer is a redirect
EditPost(form) ==
    /\ EditorFrame
    /\ IF ~MappingExists
       THEN pages' = pages /\ response' = Respond(302, None)
       ELSE /\ pages' = ApplyMultipageFlags(
                    [i \in DOMAIN pages |-> FormEntry(pages[i], form[pages[i].page])])
            /\ response' = Respond(302, None)

\* bookmark titles of the documents the editor is run on
EditTitles == {TitleScheduleA, TitlePage2}

\* the labels the curator submits: blank, a bare marker, an un-suffixed base
\* label
BlankText == <<" ", " ">>

TextP3 == <<" ", "P", "3", " ">>

TextSchA == <<"S","c","h","_","A">>

PayloadLabels == OptionOf({<<>>, BlankText, TextP3, TextSchA})

FormFields == OptionOf({TextP3})

PageArgs == 0..MaxEditPages

\* build_bookmark_gt is entered, from upload(), for a document of the editor
InitEdit == Init /\ total_pages <= MaxEditPages

VisitEdit ==
    \E title \in OptionOf(EditTitles), page_no \in PageNos :
        VisitNode(EditTitles, title, page_no, 0)

UpdateLabel == \E page \in PageArgs, l \in PayloadLabels : ApiUpdateLabel(page, l)

RestoreLabel == \E page \in PageArgs : ApiRestoreLabel(page)

EditForm == \E form \in [1..total_pages -> FormFields] : EditPost(form)

NextEdit ==
    \/ OpenNoOutline
    \/ OpenOutline
    \/ VisitEdit
    \/ AssignPages
    \/ GroupStep
    \/ ApplyFlagsAndSave
    \/ UpdateLabel
    \/ RestoreLabel
    \/ ApiRestoreAll
    \/ EditForm

SpecEdit == InitEdit /\ [][NextEdit]_vars

(***************************************************************************)
(* Documents with separator bookmarks                                      *)
(***************************************************************************)

\* bookmark titles of a document whose outline has separators
SeparatorTitles == {TitleScheduleA, TitleSeparator}

VisitSeparated ==
    \E title \in OptionOf(SeparatorTitles), page_no \in PageNos, depth \in Depths :
        VisitNode(SeparatorTitles, title, page_no, depth)

NextSeparated ==
    \/ OpenNoOutline
    \/ OpenOutline
    \/ VisitSeparated
    \/ AssignPages
    \/ GroupStep
    \/ ApplyFlagsAndSave

SpecSeparated == InitEdit /\ [][NextSeparated]_vars

(***************************************************************************)
(* The outline walk on its own (_collect_outline_entries)                  *)
(***************************************************************************)

MaxNodes == 3

\* (idnum, generation) of the indirect reference of page i
PageKey(i) == <<i, 0>>

\* _build_page_ref_map: refs[i] is the indirect reference of the i-th page,
\* None for a page that has none; idx counts from 0
BuildPageRefMap(refs) ==
    [k \in {refs[i][1] : i \in {j \in DOMAIN refs : refs[j] # None}} |->
        (CHOOSE i \in DOMAIN refs :
            /\ refs[i] = Some(k)
            /\ \A j \in DOMAIN refs : refs[j] = Some(k) => j <= i) - 1]

\* an IndirectObject as the element of a destination array
IndirectTo(key) == [kind |-> "indirect", idnum |-> key[1], generation |-> key[2]]

\* a direct object (a number, a name) as the element of a destination array
DirectElement == [kind |-> "direct", idnum |-> 0, generation |-> 0]

\* an ArrayObject
ArrayDest(elems) == [kind |-> "array", elems |-> elems, to |-> <<>>]

\* a destination that is no array: a named destination
NameDest == [kind |-> "name", elems |-> <<>>, to |-> <<>>]

\* an IndirectObject whose get_object() is the array of elems
RefDest(elems) == [kind |-> "ref", elems |-> <<>>, to |-> elems]

\* an IndirectObject whose get_object() raises
BrokenRefDest == [kind |-> "broken", elems |-> <<>>, to |-> <<>>]

\* a resolver that returns the 0-based index of the page map
PageNumberFromDest_ZeroBased(dest, map) ==
    IF /\ dest.kind = "array" /\ dest.elems # <<>>
       /\ dest.elems[1].kind = "indirect"
       /\ <<dest.elems[1].idnum, dest.elems[1].generation>> \in DOMAIN map
    THEN Some(map[<<dest.elems[1].idnum, dest.elems[1].generation>>])
    ELSE None

\* _page_number_from_dest: Some(page number) or None; an exception of
\* get_object() is caught and gives None
PageNumberFromDest(dest, map) ==
    IF dest.kind = "broken"
    THEN None
    ELSE LET resolved == IF dest.kind = "ref" THEN ArrayDest(dest.to) ELSE dest
         IN  IF resolved.kind = "array" /\ resolved.elems # <<>>
             THEN LET first == resolved.elems[1]
                      key   == <<first.idnum, first.generation>>
                  IN  IF first.kind = "indirect" /\ key \in DOMAIN map
                      THEN Some(map[key] + 1)
                      ELSE None
             ELSE None

\* the action dictionary of a node with /D d (None: no /D)
ActionDict(d) == [dict |-> TRUE, D |-> d]

\* an /A entry that does not resolve to a dictionary
ActionOther == [dict |-> FALSE, D |-> None]

\* an outline node: a DictionaryObject with optional /Title, /Dest, /A,
\* /First and /Next
OutlineNode(title, dest, action) ==
    [dict |-> TRUE, title |-> title, dest |-> dest, action |-> action,
     first |-> None, next |-> None]

\* the titles of the nodes of the walk
WalkTitles == {TitleScheduleA, <<"-">>}

\* _normalize_title(raw_title) and raw_title.strip() of these titles
WalkLabel ==
    [normalizing \in BOOLEAN |->
        [t \in WalkTitles |-> IF normalizing THEN NormalizeTitle(t) ELSE Strip(t)]]

\* the label part of node_to_entries
NodeLabel(node, normalizing) ==
    IF node.title = None THEN None ELSE Some(WalkLabel[normalizing][node.title[1]])

\* the page part of node_to_entries: /Dest, else /D of the action dictionary
NodePage(node, map) ==
    LET dest == IF node.dest # None
                THEN node.dest
                ELSE IF node.action # None /\ node.action[1].dict
                     THEN node.action[1].D
                     ELSE None
    IN  IF dest # None THEN PageNumberFromDest(dest[1], map) ELSE None

\* `if label and page_no is not None`
EmitsEntry(label, page_no) == Truthy(label) /\ page_no # None

\* the entries list after node_to_entries has looked at the node
Collected(ents, node, depth) ==
    LET label   == NodeLabel(node, normalize)
        page_no == NodePage(node, page_ref_map)
    IN  IF EmitsEntry(label, page_no)
        THEN Append(ents, [label |-> label[1], page |-> page_no[1], depth |-> depth])
        ELSE ents

WalkFrame ==
    UNCHANGED <<rest, normalizer, total_pages, best_for_page, best_for_page_raw, pages,
                raw_pages, current_prefix, idx, sel, response,
                outline, page_ref_map, normalize>>

\* cur = _resolve(first_node); the top-level loop is entered if it is a
\* dictionary
WalkStart ==
    /\ pc = "collect"
    /\ IF outline[1].dict
       THEN stack' = <<[cur |-> 1, depth |-> 0]>> /\ pc' = "node"
       ELSE stack' = <<>> /\ pc' = "collected"
    /\ UNCHANGED <<entries, source>>
    /\ WalkFrame

\* a walk that does not descend below a node that gave no entry
WalkNode_PrunesSilentNodes ==
    /\ pc = "node"
    /\ LET top  == stack[Len(stack)]
           node == outline[top.cur]
       IN  /\ entries' = Collected(entries, node, top.depth)
           /\ source' = IF entries' # entries THEN Append(source, top.cur) ELSE source
           /\ IF entries' # entries /\ node.first # None /\ outline[node.first[1]].dict
              THEN /\ stack' = Append(stack, [cur |-> node.first[1], depth |-> top.depth + 1])
                   /\ pc' = "node"
              ELSE /\ stack' = stack
                   /\ pc' = "next"
    /\ WalkFrame

\* node_to_entries(cur, depth) up to its children loop: the entry is
\* appended, and the loop over the children is entered if /First resolves
\* to a dictionary; otherwise the call returns
WalkNode ==
    /\ pc = "node"
    /\ LET top  == stack[Len(stack)]
           node == outline[top.cur]
       IN  /\ entries' = Collected(entries, node, top.depth)
           /\ source' = IF entries' # entries THEN Append(source, top.cur) ELSE source
           /\ IF node.first # None /\ outline[node.first[1]].dict
              THEN /\ stack' = Append(stack, [cur |-> node.first[1], depth |-> top.depth + 1])
                   /\ pc' = "node"
              ELSE /\ stack' = stack
                   /\ pc' = "next"
    /\ WalkFrame

\* the end of an iteration of a sibling loop: /Next is read; the loop goes on
\* with a dictionary and ends otherwise, which returns to the loop of the
\* parent or, at depth 0, returns the entries
WalkNext ==
    /\ pc = "next"
    /\ LET top  == stack[Len(stack)]
           node == outline[top.cur]
       IN  IF node.next # None /\ outline[node.next[1]].dict
           THEN /\ stack' = [stack EXCEPT ![Len(stack)].cur = node.next[1]]
                /\ pc' = "node"
           ELSE /\ stack' = SubSeq(stack, 1, Len(stack) - 1)
                /\ pc' = IF Len(stack) = 1 THEN "collected" ELSE "next"
    /\ UNCHANGED <<entries, source>>
    /\ WalkFrame

NextWalk == WalkStart \/ WalkNode \/ WalkNext

\* the inputs of the walk: outlines of up to MaxNodes nodes over a
\* two-page document, every /First and /Next leading to a dictionary.  The objects are numbered so that /First and /Next
\* lead to higher numbers, and every object but the first is the target of
\* exactly one link: the outline is a tree and object 1 is first_node.
TitleHyphen == <<"-">>

DestToPage(i) == ArrayDest(<<IndirectTo(PageKey(i))>>)

WalkObjects ==
    { OutlineNode(Some(TitleScheduleA), Some(DestToPage(1)), None),
      OutlineNode(Some(TitleHyphen), None, Some(ActionDict(Some(DestToPage(2))))),
      OutlineNode(None, Some(DestToPage(1)), None),
      OutlineNode(Some(TitleScheduleA), None, None) }

Links == [from : 1..MaxNodes, via : {"first", "next"}]

Shapes(n) ==
    {f \in [2..n -> Links] :
        /\ \A k \in 2..n : f[k].from < k
        /\ \A j, k \in 2..n : j # k => f[j] # f[k]}

LinkTarget(f, m, via) ==
    LET ks == {k \in DOMAIN f : f[k] = [from |-> m, via |-> via]}
    IN  IF ks = {} THEN None ELSE Some(CHOOSE k \in ks : TRUE)

Linked(objs, f) ==
    [m \in DOMAIN objs |->
        [objs[m] EXCEPT !.first = LinkTarget(f, m, "first"),
                        !.next  = LinkTarget(f, m, "next")]]

\* the outlines of n objects
Outlines(n) == {Linked(objs, f) : objs \in [1..n -> WalkObjects], f \in Shapes(n)}

\* no extraction, selection or edit is under way
ExtractionIdle ==
    /\ best_for_page = EmptyDict
    /\ best_for_page_raw = EmptyDict
    /\ pages = <<>>
    /\ raw_pages = None
    /\ current_prefix = None
    /\ idx = 0
    /\ entries = <<>>
    /\ sel = 0
    /\ response = NoResponse

\* _collect_outline_entries(first, page_ref_map, normalize) is called
InitWalk ==
    /\ pc = "collect"
    /\ total_pages = 2
    /\ page_ref_map = BuildPageRefMap(<<Some(PageKey(1)), Some(PageKey(2))>>)
    /\ normalize \in BOOLEAN
    /\ \E n \in 1..MaxNodes : outline \in Outlines(n)
    /\ stack = <<>>
    /\ source = <<>>
    /\ ExtractionIdle
    /\ NormalizerIdle
    /\ RestIdle

SpecWalk == InitWalk /\ [][NextWalk]_vars

\* the destinations of the resolver taken on its own
DestKeys == {PageKey(i) : i \in 1..MaxPages} \cup {<<1, 1>>}

Dests ==
    {ArrayDest(<<>>), ArrayDest(<<DirectElement>>), NameDest, BrokenRefDest}
    \cup {ArrayDest(<<IndirectTo(k)>>) : k \in DestKeys}
    \cup {ArrayDest(<<IndirectTo(k), DirectElement>>) : k \in DestKeys}
    \cup {RefDest(<<IndirectTo(k)>>) : k \in DestKeys}

NodeActions ==
    {None, Some(ActionOther)} \cup {Some(ActionDict(d)) : d \in OptionOf(Dests)}

\* a one-node outline whose node has any destination, over a document whose
\* pages may lack an indirect reference
InitResolve ==
    /\ pc = "collect"
    /\ total_pages \in 1..MaxPages
    /\ \E refs \in [1..total_pages -> BOOLEAN] :
          page_ref_map = BuildPageRefMap([i \in 1..total_pages |->
                             IF refs[i] THEN Some(PageKey(i)) ELSE None])
    /\ normalize = TRUE
    /\ \E dest \in OptionOf(Dests), action \in NodeActions :
          outline = <<OutlineNode(Some(TitleScheduleA), dest, action)>>
    /\ stack = <<>>
    /\ source = <<>>
    /\ ExtractionIdle
    /\ NormalizerIdle
    /\ RestIdle

SpecResolve == InitResolve /\ [][NextWalk]_vars

(***************************************************************************)
(* The title normaliser on its own (_normalize_title)                      *)
(***************************************************************************)

MaxTitleLen == 3

TitleScheduleNECForm1040NR == <<"S","c","h","e","d","u","l","e"," ","N","E","C"," ","(","F","o","r","m"," ","1","0","4","0","N","R",")">>

TitleSchNECForm1040NR == <<"S","c","h"," ","N","E","C"," ","(","F","o","r","m"," ","1","0","4","0","N","R",")">>

TitleForm1040SR == <<"F","o","r","m"," ","1","0","4","0","-","S","R">>

TitleForm1040NR == <<"F","o","r","m"," ","1","0","4","0","N","R">>

TitleForm1040 == <<"F","o","r","m"," ","1","0","4","0">>

TitleUSForm1040 == <<"2","0","2","3"," ","U","S"," ","F","o","r","m"," ","1","0","4","0">>

TitleSchK1 == <<"s","c","h"," ","k","-","1">>

TitlePgII == <<"P","g"," ","I","I">>

TitlePDot2 == <<"P","."," ","2">>

TitlePage2NoSpace == <<"P","A","G","E","2">>

TitlePill == <<"P","i","l","l">>

TitleDashes == <<" ","W","a","g","e","s",","," ","S","a","l","a","r","i","e","s"," ",EnDash," ","T","i","p","s"," ",EmDash," ","2","0","2","3"," ">>

ExampleTitles ==
    {TitleScheduleA, TitlePage2, TitleSchAP1, TitleHyphen, TitleScheduleNECForm1040NR,
     TitleSchNECForm1040NR,
     TitleForm1040SR,
     TitleForm1040NR,
     TitleForm1040,
     TitleUSForm1040,
     TitleSchK1,
     TitlePgII,
     TitlePDot2,
     TitlePage2NoSpace,
     TitlePill,
     TitleDashes}

TitleAlphabet == {"P", "g", ".", " ", "2", "I", ",", "-", "_"}

\* the titles given to the normaliser: the examples and every string of up
\* to MaxTitleLen characters of the alphabet
NormTitles(maxlen) ==
    ExampleTitles \cup UNION {[1..n -> TitleAlphabet] : n \in 0..maxlen}

NormalizerFrame ==
    UNCHANGED <<rest, walker, pc, total_pages, best_for_page, best_for_page_raw, pages,
                raw_pages, current_prefix, idx, entries, sel, response, raw_title>>

\* _normalize_title(raw_title) is about to be called
InitNormalize ==
    /\ pc = "normalize"
    /\ total_pages = 0
    /\ raw_title \in NormTitles(MaxTitleLen)
    /\ results = <<>>
    /\ ExtractionIdle
    /\ WalkerIdle
    /\ RestIdle

\* label = _normalize_title(raw_title)
NormalizeOnce ==
    /\ pc = "normalize"
    /\ results = <<>>
    /\ results' = <<NormalizeTitle(raw_title)>>
    /\ NormalizerFrame

\* the label is given to _normalize_title again
NormalizeAgain ==
    /\ pc = "normalize"
    /\ Len(results) = 1
    /\ results' = Append(results, NormalizeTitle(results[1]))
    /\ NormalizerFrame

NextNormalize == NormalizeOnce \/ NormalizeAgain

SpecNormalize == InitNormalize /\ [][NextNormalize]_vars

(***************************************************************************)
(* The roman numeral decoder on its own (_roman_to_int)                    *)
(***************************************************************************)

\* the longest string of the decoder's alphabet given to it
MaxRomanLen == 3

\* the seven symbols in both cases, and characters that are no symbol
RomanAlphabet == {"I", "V", "X", "L", "C", "D", "M", "i", "x", "m", "A", "2", " "}

\* one decimal digit d of a numeral, written with the symbols of its decade
RomanDigit(d, one, five, ten) ==
    CASE d = 0 -> <<>>
      [] d = 1 -> <<one>>
      [] d = 2 -> <<one, one>>
      [] d = 3 -> <<one, one, one>>
      [] d = 4 -> <<one, five>>
      [] d = 5 -> <<five>>
      [] d = 6 -> <<five, one>>
      [] d = 7 -> <<five, one, one>>
      [] d = 8 -> <<five, one, one, one>>
      [] d = 9 -> <<one, ten>>

\* the numeral of n in standard subtractive notation, 1 <= n <= 3999
StandardNumeral(n) ==
    RomanDigit(n \div 1000, "M", "M", "M")
        \o RomanDigit((n \div 100) % 10, "C", "D", "M")
        \o RomanDigit((n \div 10) % 10, "X", "L", "C")
        \o RomanDigit(n % 10, "I", "V", "X")

LargestNumeral == 3999

\* the strings given to the decoder: every well-formed numeral, in upper and
\* in lower case, and every string of up to maxlen characters of the alphabet
RomanInputs(maxlen) ==
    {StandardNumeral(n) : n \in 1..LargestNumeral}
    \cup {Lower(StandardNumeral(n)) : n \in 1..LargestNumeral}
    \cup UNION {[1..k -> RomanAlphabet] : k \in 0..maxlen}

DecoderFrame ==
    UNCHANGED <<handlers, walker, normalizer, pc, total_pages, best_for_page, best_for_page_raw,
                pages, raw_pages, current_prefix, idx, entries, sel, response, numeral,
                server>>

\* _roman_to_int(numeral) is about to be called
InitRoman ==
    /\ HandlersIdle
    /\ pc = "decode"
    /\ total_pages = 0
    /\ numeral \in RomanInputs(MaxRomanLen)
    /\ decoded = None
    /\ ServerIdle
    /\ ExtractionIdle
    /\ WalkerIdle
    /\ NormalizerIdle

\* the call returns
DecodeRoman ==
    /\ pc = "decode"
    /\ decoded = None
    /\ decoded' = Some(RomanToInt(numeral))
    /\ DecoderFrame

NextRoman == DecodeRoman

SpecRoman == InitRoman /\ [][NextRoman]_vars

(***************************************************************************)
(* Uploads (app.py) and the batch run (main)                               *)
(***************************************************************************)

EndsWith(s, suffix) ==
    Len(s) >= Len(suffix) /\ SubSeq(s, Len(s) - Len(suffix) + 1, Len(s)) = suffix

DotPdf == <<".", "p", "d", "f">>

DotPDF == <<".", "P", "D", "F">>

RECURSIVE StripDotUnderscore(_)
\* .strip("._")
StripDotUnderscore(s) ==
    IF s = <<>> THEN s
    ELSE IF s[1] \in {".", "_"} THEN StripDotUnderscore(Tail(s))
    ELSE IF s[Len(s)] \in {".", "_"} THEN StripDotUnderscore(SubSeq(s, 1, Len(s) - 1))
    ELSE s

\* werkzeug's secure_filename on a name of letters, digits, dots and blanks:
\* the words are joined with "_" and leading and trailing "._" are stripped
SecureFilename(name) == StripDotUnderscore(SubSpaceHyphenRuns(Strip(name)))

\* the keyword parameters of build_bookmark_gt
BuildBookmarkGtParameters == {"pdf_path", "outdir", "family", "config_name", "source"}

\* the keyword arguments upload() calls it with
UploadArguments ==
    {"pdf_path", "outdir", "family", "config_name", "source", "apply_prefix"}

\* Python binds the arguments of a call to the parameters; a keyword the
\* function does not have raises TypeError before its body runs
CallBinds(arguments, parameters) == arguments \subseteq parameters

RedirectTo(endpoint) == [code |-> 302, label |-> None, to |-> endpoint]

\* the answer to a request whose handler raised
ServerError == [code |-> 500, label |-> None]

\* f and f.filename.lower().endswith(".pdf"), file being None without a file part
IsPdfUpload(file) == file # None /\ EndsWith(Lower(file[1]), DotPdf)

\* build_bookmark_gt is entered for a document of at most MaxEditPages pages
EnterBuildBookmarkGt ==
    /\ pc' = "start"
    /\ total_pages' \in 0..MaxEditPages
    /\ best_for_page' = EmptyDict
    /\ best_for_page_raw' = EmptyDict
    /\ pages' = <<>>
    /\ raw_pages' = None
    /\ current_prefix' = None
    /\ idx' = 0

\* POST /upload with the file part file and the checkbox ultratax_mode
Upload(file, ultratax_mode) ==
    /\ IF ~IsPdfUpload(file)
       THEN /\ response' = RedirectTo("index")
            /\ UNCHANGED <<source_dir, pc, total_pages, best_for_page, best_for_page_raw,
                           pages, raw_pages, current_prefix, idx>>
       ELSE /\ source_dir' = source_dir \cup {SecureFilename(file[1])}
            /\ IF CallBinds(UploadArguments, BuildBookmarkGtParameters)
               THEN /\ pc \in {"idle", "ready"}
                    /\ EnterBuildBookmarkGt
                    /\ response' = RedirectTo("edit")
               ELSE /\ response' = ServerError
                    /\ UNCHANGED <<pc, total_pages, best_for_page, best_for_page_raw,
                                   pages, raw_pages, current_prefix, idx>>
    /\ UNCHANGED <<handlers, decoder, mappings, aliases, curated, suggester, walker, normalizer,
                   entries, sel>>

\* main() of extract_labels_ultratax.py reaches a file of Source_PDF that
\* matches *.PDF or *.pdf and calls build_bookmark_gt on it
BatchFile(name) ==
    /\ pc \in {"idle", "ready"}
    /\ name \in source_dir
    /\ EndsWith(name, DotPDF) \/ EndsWith(name, DotPdf)
    /\ EnterBuildBookmarkGt
    /\ UNCHANGED <<rest, walker, normalizer, entries, sel, response>>

NameAPdf == <<"a", ".", "p", "d", "f">>

NameBPDF == <<"b", ".", "P", "D", "F">>

NameABPdf == <<"a", " ", "b", ".", "P", "d", "f">>

NameCTxt == <<"c", ".", "t", "x", "t">>

NameDotPdf == <<".", "p", "d", "f">>

\* the file part of an upload
UploadFiles == OptionOf({NameAPdf, NameBPDF, NameABPdf, NameCTxt, NameDotPdf})

UploadStep == \E file \in UploadFiles, ultratax_mode \in BOOLEAN : Upload(file, ultratax_mode)

BatchStep == \E name \in source_dir : BatchFile(name)

\* the server is up and Source_PDF is empty
InitUpload ==
    /\ pc = "idle"
    /\ total_pages = 0
    /\ ExtractionIdle
    /\ WalkerIdle
    /\ NormalizerIdle
    /\ RestIdle

NextUpload ==
    \/ UploadStep
    \/ BatchStep
    \/ OpenNoOutline
    \/ OpenOutline
    \/ VisitEdit
    \/ AssignPages
    \/ GroupStep
    \/ ApplyFlagsAndSave

SpecUpload == InitUpload /\ [][NextUpload]_vars

(***************************************************************************)
(* The curated index (app.py)                                              *)
(***************************************************************************)

\* the largest number of pages of a curated document
MaxCuratePages == 2

NameBPdf == <<"b", ".", "p", "d", "f">>

Schedule_A == <<"S","c","h","e","d","u","l","e","_","A">>

RECURSIVE GroupingPass(_, _, _)
\* `for entry in pages` from entry i on, with current_prefix = cp
GroupingPass(pgs, i, cp) ==
    IF i > Len(pgs) THEN pgs
    ELSE LET r == GroupEntry(pgs[i], cp)
         IN  GroupingPass([pgs EXCEPT ![i] = r.entry], i + 1, r.prefix)

\* the pages array build_bookmark_gt writes for a document whose page i has
\* the single bookmark titles[i], or none
MappingOf(titles) ==
    ApplyMultipageFlags(GroupingPass(
        [i \in DOMAIN titles |->
            IF titles[i] = None THEN DefaultPage(i)
            ELSE BookmarkPage(i, NormalizeTitle(titles[i][1]), Strip(titles[i][1]))],
        1, None))

\* _derive_base_and_page
DeriveBaseAndPage(label) ==
    IF MultipageBase(label) # None
    THEN [base |-> MultipageBase(label)[1],
          page |-> ParseInt(SubSeq(label, Len(label) - TrailingDigits(label) + 1, Len(label)))]
    ELSE [base |-> label, page |-> 1]

\* _canonicalize_label
CanonicalizeLabel(label) == IF label \in DOMAIN aliases THEN aliases[label] ELSE label

\* the record _append_curated_record builds for the entry e of the mapping of
\* doc (source_json and the image features, which name no document, page or
\* label, are left out)
CuratedRecord(doc, e) ==
    LET can_lbl == CanonicalizeLabel(e.label)
    IN  [document      |-> doc,
         page          |-> e.page,
         label         |-> can_lbl,
         auto_label    |-> e.auto_label,
         updated_label |-> e.updated_label,
         base_label    |-> DeriveBaseAndPage(can_lbl).base,
         page_in_form  |-> DeriveBaseAndPage(can_lbl).page,
         multipage     |-> e.multipage,
         raw_label     |-> e.raw_label]

\* an index from which nothing is removed
DeleteCuratedRecords_KeepsAll(index, doc, page) == index

\* _delete_curated_records(doc, page): the index without the records of
\* doc#page
DeleteCuratedRecords(index, doc, page) ==
    SelectSeq(index, LAMBDA rec : ~(rec.document = doc /\ rec.page = page))

\* _append_curated_record: the index after the call
AppendCuratedRecord(index, doc, e) ==
    Append(DeleteCuratedRecords(index, doc, e.page), CuratedRecord(doc, e))

CurateFrame ==
    UNCHANGED <<handlers, decoder, source_dir, aliases, suggester, walker, normalizer, pc, total_pages,
                best_for_page, best_for_page_raw, pages, raw_pages, current_prefix, idx,
                entries, sel>>

\* POST /api/curate/<stem>/<page>
ApiCuratePage(doc, page) ==
    /\ pc = "serving"
    /\ IF doc \notin DOMAIN mappings
       THEN curated' = curated /\ response' = Respond(404, None)
       ELSE LET k == FirstEntryOf(mappings[doc], page)
            IN  IF k = 0
                THEN curated' = curated /\ response' = Respond(404, None)
                ELSE IF mappings[doc][k].label = Other
                THEN curated' = curated /\ response' = Respond(400, None)
                ELSE /\ curated' = AppendCuratedRecord(curated, doc, mappings[doc][k])
                     /\ response' = Respond(200, None)
    /\ UNCHANGED mappings
    /\ CurateFrame

\* `if e.get("label") and e.get("label") != "Other"`
CuratedByAll(e) == e.label # <<>> /\ e.label # Other

RECURSIVE CurateAllFrom(_, _, _, _)
\* the loop of api_curate_all from entry i on
CurateAllFrom(index, doc, pgs, i) ==
    IF i > Len(pgs) THEN index
    ELSE CurateAllFrom(IF CuratedByAll(pgs[i])
                       THEN AppendCuratedRecord(index, doc, pgs[i])
                       ELSE index,
                       doc, pgs, i + 1)

\* POST /api/curate_all/<stem>
ApiCurateAll(doc) ==
    /\ pc = "serving"
    /\ IF doc \notin DOMAIN mappings
       THEN curated' = curated /\ response' = Respond(404, None)
       ELSE /\ curated' = CurateAllFrom(curated, doc, mappings[doc], 1)
            /\ response' = [code |-> 200, label |-> None,
                            count |-> Cardinality({i \in DOMAIN mappings[doc] :
                                                      CuratedByAll(mappings[doc][i])})]
    /\ UNCHANGED mappings
    /\ CurateFrame

\* POST /api/update_label/<stem>/<page> on the mapping of doc
ApiUpdateLabelOf(doc, page, payload_label) ==
    /\ pc = "serving"
    /\ LET new_label == PayloadLabel(payload_label)
       IN  IF doc \notin DOMAIN mappings
           THEN mappings' = mappings /\ response' = Respond(404, None)
           ELSE IF new_label = <<>>
           THEN mappings' = mappings /\ response' = Respond(400, None)
           ELSE IF FirstEntryOf(mappings[doc], page) = 0
           THEN mappings' = mappings /\ response' = Respond(404, None)
           ELSE /\ mappings' = [mappings EXCEPT ![doc] = ApplyMultipageFlags(
                        [@ EXCEPT ![FirstEntryOf(@, page)] = UpdatedEntry(@, new_label)])]
                /\ response' = Respond(200, None)
    /\ UNCHANGED curated
    /\ CurateFrame

\* the stems of the requests: two documents with a mapping and one without
CurateStems == {NameAPdf, NameBPdf, NameCTxt}

CuratePageArgs == 1..MaxCuratePages

\* the label a curator submits
CurateLabels == {Some(TextSchA)}

\* the alias files of the server: none, or Sch_A is an alias of Schedule_A
AliasFiles == {EmptyDict, [l \in {TextSchA} |-> Schedule_A]}

\* the batch run has written the mappings of a.pdf (Schedule A on page 1 and
\* Page 2 on every later page) and of b.pdf (one page, no outline), and the
\* curated index does not exist yet
InitCurate ==
    /\ HandlersIdle
    /\ pc = "serving"
    /\ total_pages = 0
    /\ source_dir = {NameAPdf, NameBPdf}
    /\ mappings = [d \in {NameAPdf, NameBPdf} |->
                      IF d = NameAPdf
                      THEN MappingOf([i \in 1..MaxCuratePages |->
                               IF i = 1 THEN Some(TitleScheduleA) ELSE Some(TitlePage2)])
                      ELSE MappingOf(<<None>>)]
    /\ aliases \in AliasFiles
    /\ curated = <<>>
    /\ SuggesterIdle
    /\ DecoderIdle
    /\ ExtractionIdle
    /\ WalkerIdle
    /\ NormalizerIdle

CuratePageStep == \E doc \in CurateStems, page \in CuratePageArgs : ApiCuratePage(doc, page)

CurateAllStep == \E doc \in CurateStems : ApiCurateAll(doc)

CurateEditStep ==
    \E doc \in CurateStems, page \in CuratePageArgs, l \in CurateLabels :
        ApiUpdateLabelOf(doc, page, l)

NextCurate == CuratePageStep \/ CurateAllStep \/ CurateEditStep

SpecCurate == InitCurate /\ [][NextCurate]_vars

(***************************************************************************)
(* Versions of the suggestion index (app.py, curation/suggest.py)          *)
(***************************************************************************)

\* the number of embedding versions v1, v2, ...
MaxVersions == 2

\* the version tags; DefaultVersion stands for the files without a suffix
Versions == 1..MaxVersions

DefaultVersion == 0

SuggestFrame ==
    UNCHANGED <<handlers, decoder, source_dir, mappings, aliases, curated, walker, normalizer, pc,
                total_pages, best_for_page, best_for_page_raw, pages, raw_pages,
                current_prefix, idx, entries, sel, built_indexes, legacy_active,
                legacy_indexes>>

\* POST /api/set_active_version with the parameter version, None when missing
ApiSetActiveVersion(ver) ==
    /\ pc = "serving"
    /\ IF ver = None
       THEN active_version' = active_version /\ response' = Respond(400, None)
       ELSE /\ active_version' = ver
            /\ response' = [code |-> 200, label |-> None, version |-> ver[1]]
    /\ UNCHANGED index_cache
    /\ SuggestFrame

\* POST /api/build_index: build_faiss.py is run as a subprocess; the body of
\* its `for _, row in df.iterrows():` is not indented, so the interpreter
\* rejects the file, the subprocess fails and check=True raises
ApiBuildIndex(ver) ==
    /\ pc = "serving"
    /\ response' = IF ver = None THEN Respond(400, None) ELSE ServerError
    /\ UNCHANGED <<active_version, index_cache>>
    /\ SuggestFrame

\* the version _ensure_faiss reads from faiss_dir = dataset/v1/faiss
EnsureFaissVersion == IF legacy_active = None THEN DefaultVersion ELSE legacy_active[1]

\* the answer of api_suggest whose neighbours came from the index of version v
SuggestedFrom(v) == [code |-> 200, label |-> None, index |-> v]

\* GET /api/suggest/<stem>/<page> for a page that exists: search_neighbors
\* calls _ensure_faiss, which returns the cached index when there is one and
\* otherwise loads the index its active file names, or raises when the index
\* or the id map is missing
ApiSuggest ==
    /\ pc = "serving"
    /\ IF index_cache # None
       THEN /\ index_cache' = index_cache
            /\ response' = SuggestedFrom(index_cache[1])
       ELSE IF EnsureFaissVersion \in legacy_indexes
       THEN /\ index_cache' = Some(EnsureFaissVersion)
            /\ response' = SuggestedFrom(EnsureFaissVersion)
       ELSE /\ index_cache' = None
            /\ response' = ServerError
    /\ UNCHANGED active_version
    /\ SuggestFrame

\* the server starts: the index directories hold what earlier builds left
\* (indexes with a non-empty id map), no version has been activated through
\* the server and nothing is loaded
InitSuggest ==
    /\ HandlersIdle
    /\ pc = "serving"
    /\ total_pages = 0
    /\ source_dir = {}
    /\ mappings = EmptyDict
    /\ aliases = EmptyDict
    /\ curated = <<>>
    /\ active_version = None
    /\ built_indexes \in SUBSET Versions
    /\ legacy_active \in OptionOf(Versions)
    /\ legacy_indexes \in SUBSET (Versions \cup {DefaultVersion})
    /\ index_cache = None
    /\ DecoderIdle
    /\ ExtractionIdle
    /\ WalkerIdle
    /\ NormalizerIdle

SetActiveStep == \E ver \in OptionOf(Versions) : ApiSetActiveVersion(ver)

BuildIndexStep == \E ver \in OptionOf(Versions) : ApiBuildIndex(ver)

NextSuggest == SetActiveStep \/ BuildIndexStep \/ ApiSuggest

SpecSuggest == InitSuggest /\ [][NextSuggest]_vars

(***************************************************************************)
(* Concurrent label edits (app.py, served by app.run's threaded server)    *)
(***************************************************************************)

\* the number of api_update_label calls served at the same time
MaxRequests == 2

Requests == 1..MaxRequests

\* the number of characters json.dump writes for True and False
BoolLength(b) == IF b THEN 4 ELSE 5

RECURSIVE JsonLength(_)
\* the length of json.dump's text of a mapping with the pages pgs, less the
\* characters that are the same whatever the fields hold
JsonLength(pgs) ==
    IF pgs = <<>> THEN 0
    ELSE Len(Head(pgs).label) + Len(Head(pgs).auto_label) + Len(Head(pgs).raw_label)
         + BoolLength(Head(pgs).updated_label) + BoolLength(Head(pgs).multipage)
         + JsonLength(Tail(pgs))

\* a thread that serves no request yet
IdleRequest == [at |-> "idle", page |-> 0, new_label |-> <<>>, data |-> <<>>, code |-> 0]

\* the request has returned to the client
Returned(r, code) == [r EXCEPT !.at = "done", !.code = code]

RaceFrame == UNCHANGED <<decoder, server, walker, normalizer, pc, total_pages, best_for_page,
                         best_for_page_raw, raw_pages, current_prefix, idx, entries, sel>>

\* api_update_label up to the check of new_label: the path resolves, the
\* payload is read
ReceiveUpdate(t, page, payload_label) ==
    /\ requests[t].at = "idle"
    /\ LET new_label == PayloadLabel(payload_label)
       IN  IF ~MappingExists
           THEN /\ requests' = [requests EXCEPT ![t] = Returned(@, 404)]
                /\ response' = Respond(404, None)
           ELSE IF new_label = <<>>
           THEN /\ requests' = [requests EXCEPT ![t] = Returned(@, 400)]
                /\ response' = Respond(400, None)
           ELSE /\ requests' = [requests EXCEPT ![t] =
                                   [@ EXCEPT !.at = "read", !.page = page,
                                             !.new_label = new_label]]
                /\ response' = response
    /\ UNCHANGED <<pages, file_text>>
    /\ RaceFrame

\* `with open(json_path, "r")`: data = json.load(f), which raises on a text
\* that is no JSON document; then the loop over data["pages"] and the flag
\* pass, on the thread's own copy
ReadMapping(t) ==
    /\ requests[t].at = "read"
    /\ LET r == requests[t]
           k == FirstEntryOf(pages, r.page)
       IN  IF ~file_text.json
           THEN /\ requests' = [requests EXCEPT ![t] = Returned(@, 500)]
                /\ response' = ServerError
           ELSE IF k = 0
           THEN /\ requests' = [requests EXCEPT ![t] = Returned(@, 404)]
                /\ response' = Respond(404, None)
           ELSE /\ requests' = [requests EXCEPT ![t] =
                                   [@ EXCEPT !.at = "open",
                                             !.data = ApplyMultipageFlags(
                                                 [pages EXCEPT ![k] =
                                                     UpdatedEntry(@, r.new_label)])]]
                /\ response' = response
    /\ UNCHANGED <<pages, file_text>>
    /\ RaceFrame

\* open(json_path, "w") truncates the file
OpenForWriting(t) ==
    /\ requests[t].at = "open"
    /\ requests' = [requests EXCEPT ![t].at = "dump"]
    /\ file_text' = [length |-> 0, json |-> FALSE]
    /\ UNCHANGED <<pages, response>>
    /\ RaceFrame

\* json.dump and the end of the with block: the thread's text is written from
\* offset 0 of the file. A longer text another thread wrote since this thread
\* opened the file keeps its tail, and the file is no JSON document. Then
\* return jsonify({"ok": True}).
DumpAndReturn(t) ==
    /\ requests[t].at = "dump"
    /\ LET n == JsonLength(requests[t].data)
       IN  IF file_text.length > n
           THEN /\ file_text' = [file_text EXCEPT !.json = FALSE]
                /\ pages' = pages
           ELSE /\ file_text' = [length |-> n, json |-> TRUE]
                /\ pages' = requests[t].data
    /\ requests' = [requests EXCEPT ![t] = Returned(@, 200)]
    /\ response' = Respond(200, None)
    /\ RaceFrame

\* the pages the concurrent requests name
RacePages == 1..MaxEditPages

\* the labels they submit
RaceLabels == {None, Some(TextP3), Some(TextSchA)}

\* the mapping of a two-page document is written; each thread is about to
\* serve one api_update_label request
InitRace ==
    /\ pc = "ready"
    /\ total_pages = MaxEditPages
    /\ pages = MappingOf([i \in 1..MaxEditPages |->
                             IF i = 1 THEN Some(TitleScheduleA) ELSE Some(TitlePage2)])
    /\ file_text = [length |-> JsonLength(pages), json |-> TRUE]
    /\ requests = [t \in Requests |-> IdleRequest]
    /\ raw_pages = None
    /\ best_for_page = EmptyDict
    /\ best_for_page_raw = EmptyDict
    /\ current_prefix = None
    /\ idx = 0
    /\ entries = <<>>
    /\ sel = 0
    /\ response = NoResponse
    /\ WalkerIdle
    /\ NormalizerIdle
    /\ DecoderIdle
    /\ ServerIdle

ReceiveStep ==
    \E t \in Requests, page \in RacePages, payload_label \in RaceLabels :
        ReceiveUpdate(t, page, payload_label)

ReadStep == \E t \in Requests : ReadMapping(t)

OpenStep == \E t \in Requests : OpenForWriting(t)

DumpStep == \E t \in Requests : DumpAndReturn(t)

NextRace ==
    \/ ReceiveStep
    \/ ReadStep
    \/ OpenStep
    \/ DumpStep

SpecRace == InitRace /\ [][NextRace]_vars

(***************************************************************************)
(* Properties of the extraction                                            *)
(***************************************************************************)

LabelsOf(pgs) == [i \in DOMAIN pgs |-> pgs[i].label]

RawLabelsOf(pgs) == [i \in DOMAIN pgs |-> pgs[i].raw_label]

FamiliesOf(pgs) == [i \in DOMAIN pgs |-> pgs[i].family]

FlagsOf(pgs) == [i \in DOMAIN pgs |-> pgs[i].multipage]

\* a label that is "P" followed by decimal digits and nothing else
BareMarker(lbl) ==
    /\ Len(lbl) >= 2
    /\ lbl[1] = "P"
    /\ \A i \in 2..Len(lbl) : lbl[i] \in {"0","1","2","3","4","5","6","7","8","9"}

\* the lengths k for which lbl is its first k characters, then "_P", then
\* decimal digits to the end
SuffixSplits(lbl) ==
    {k \in 1..(Len(lbl) - 3) :
        /\ lbl[k + 1] = "_"
        /\ lbl[k + 2] = "P"
        /\ \A i \in (k + 3)..Len(lbl) :
              lbl[i] \in {"0","1","2","3","4","5","6","7","8","9"}}

\* the prefixes (at most one) lbl has as a label <prefix>_P<digits>
PrefixesOf(lbl) == {SubSeq(lbl, 1, k) : k \in SuffixSplits(lbl)}

\* letters, digits, underscores and parentheses
PrefixAlphabet ==
    Range(UpperChars) \cup Range(LowerChars) \cup Range(DigitChars) \cup {"_", "(", ")"}

\* the prefixes lbl has as an already-prefixed label of the grouping pass
GroupPrefixesOf(lbl) ==
    {pre \in PrefixesOf(lbl) : \A i \in DOMAIN pre : pre[i] \in PrefixAlphabet}

\* a base-section label: not Other, no bare marker, not already prefixed
BaseLabel(lbl) == lbl # Other /\ ~BareMarker(lbl) /\ GroupPrefixesOf(lbl) = {}

\* the grouping pass is about to process the bookmark-family page pages[idx]
AtFamilyPage == pc = "group" /\ idx <= Len(pages) /\ pages[idx].family = Family

\* the extraction of the two-page document whose bookmarks are "Schedule A" on
\* page 1 and "Page 2" on page 2 has finished
ExtractedScheduleAPage2 ==
    /\ pc = "ready"
    /\ total_pages = 2
    /\ FamiliesOf(pages) = <<Family, Family>>
    /\ RawLabelsOf(pages) = <<TitleScheduleA, TitlePage2>>

\* C1 as stated: the document ("Schedule A", page 1), ("Page 2", page 2) ends
\* with the labels Sch_A_P1 and Sch_A_P2, both multipage
C1_Original ==
    ExtractedScheduleAPage2 =>
        /\ LabelsOf(pages) = <<Sch_A_P1, Sch_A_P2>>
        /\ FlagsOf(pages) = <<TRUE, TRUE>>

\* C1 amended: the document ("Schedule A", page 1), ("Page 2", page 2) ends with
\* the labels Schedule_A_P1 and Schedule_A_P2 (the title is sanitised, the word
\* Schedule is not abbreviated), both multipage
C1_EndToEnd ==
    ExtractedScheduleAPage2 =>
        /\ LabelsOf(pages) = <<Schedule_A_P1, Schedule_A_P2>>
        /\ [i \in DOMAIN pages |-> pages[i].auto_label] = <<Schedule_A_P1, Schedule_A_P2>>
        /\ FlagsOf(pages) = <<TRUE, TRUE>>

C1_Witness == ExtractedScheduleAPage2 /\ pages[2].label = Schedule_A_P2

\* C2: in the grouping pass a base-section label L of a family page becomes
\* L_P1 in label and auto_label and L becomes the current prefix; a bare P<n>
\* of a family page met under a prefix becomes <prefix>_P<n> in label and
\* auto_label, n being the bookmark's own, and the prefix stays
C2_Step ==
    AtFamilyPage =>
        LET e  == pages[idx]
            e2 == pages'[idx]
        IN  /\ BaseLabel(e.label) =>
                /\ e2.label = e.label \o <<"_","P","1">>
                /\ e2.auto_label = e.label \o <<"_","P","1">>
                /\ current_prefix' = Some(e.label)
            /\ (BareMarker(e.label) /\ current_prefix # None) =>
                /\ e2.label = current_prefix[1] \o <<"_">> \o e.label
                /\ e2.auto_label = current_prefix[1] \o <<"_">> \o e.label
                /\ current_prefix' = current_prefix

\* C2: every step of the grouping pass rewrites a base section L to L_P1 and
\* sets the prefix to L, and rewrites a bare P<n> under a prefix to
\* <prefix>_P<n>, keeping the bookmark's own n
C2_GroupingRewrites == [][C2_Step]_vars

\* a bare P2 that follows the base section Schedule A has been rewritten
C2_Witness ==
    /\ pc = "group"
    /\ idx = 3
    /\ RawLabelsOf(pages)[1] = TitleScheduleA
    /\ pages[1].label = Schedule_A_P1
    /\ RawLabelsOf(pages)[2] = TitlePage2
    /\ pages[2].label = Schedule_A_P2
    /\ current_prefix = Some(<<"S","c","h","e","d","u","l","e","_","A">>)

\* C3 (step): a page of another family is left as it is by its iteration of
\* the grouping pass, and so is the current prefix
C3_Step ==
    (pc = "group" /\ idx <= Len(pages) /\ pages[idx].family # Family) =>
        /\ pages' = pages
        /\ current_prefix' = current_prefix

\* C3 (example): the labels Sch_A_P1, Other (no bookmark), P2 end as
\* Sch_A_P1, Other, Sch_A_P2
C3_Example ==
    (/\ pc = "ready"
     /\ total_pages = 3
     /\ FamiliesOf(pages) = <<Family, "Other", Family>>
     /\ RawLabelsOf(pages) = <<TitleSchAP1, Other, TitlePage2>>)
    => LabelsOf(pages) = <<Sch_A_P1, Other, Sch_A_P2>>

\* C3: an unbookmarked page is left unchanged by the grouping pass and does
\* not reset the current prefix
C3_OtherFamilyKeepsPrefix == []C3_Example /\ [][C3_Step]_vars

C3_Witness ==
    /\ pc = "ready"
    /\ total_pages = 3
    /\ FamiliesOf(pages) = <<Family, "Other", Family>>
    /\ LabelsOf(pages) = <<Sch_A_P1, Other, Sch_A_P2>>

\* C4: a family page labelled Other, or a bare P<digits> met with no prefix,
\* keeps its record and leaves the prefix absent; and the prefix goes from
\* absent to present only at a family page with a base-section label or an
\* already-prefixed label (so the bare markers in between stay as they are)
C4_Step ==
    /\ (AtFamilyPage /\ (pages[idx].label = Other
                         \/ (BareMarker(pages[idx].label) /\ current_prefix = None))) =>
            /\ pages' = pages
            /\ current_prefix' = None
    /\ (pc = "group" /\ current_prefix = None /\ current_prefix' # None) =>
            /\ AtFamilyPage
            /\ BaseLabel(pages[idx].label) \/ GroupPrefixesOf(pages[idx].label) # {}

\* C4: a family page that neither starts nor continues a section clears the
\* current prefix and keeps its record; the prefix returns only at a base
\* section or an already prefixed label
C4_Interruption == [][C4_Step]_vars

\* Schedule A, then a bookmark titled Other, then Page 2: the pass is over,
\* the marker is unrewritten and no prefix is active
C4_Witness ==
    /\ pc = "group"
    /\ idx = 4
    /\ FamiliesOf(pages) = <<Family, Family, Family>>
    /\ LabelsOf(pages) = <<Schedule_A_P1, Other, P2>>
    /\ current_prefix = None

\* C5: a family page whose label is already <prefix>_P<digits> keeps its
\* record and makes <prefix> the current prefix
C5_Step ==
    (AtFamilyPage /\ GroupPrefixesOf(pages[idx].label) # {}) =>
        /\ pages' = pages
        /\ current_prefix' \in {Some(pre) : pre \in GroupPrefixesOf(pages[idx].label)}

\* C5 (example): the bookmark Sch_A_P1 followed by Page 2 gives Sch_A_P1, Sch_A_P2
C5_Example ==
    (/\ pc = "ready"
     /\ total_pages = 2
     /\ FamiliesOf(pages) = <<Family, Family>>
     /\ RawLabelsOf(pages) = <<TitleSchAP1, TitlePage2>>)
    => LabelsOf(pages) = <<Sch_A_P1, Sch_A_P2>>

\* C5: a label already of the form <prefix>_P<digits> is kept as it is and
\* sets the current prefix to <prefix>, so that later bare markers continue it
C5_AlreadyPrefixed == []C5_Example /\ [][C5_Step]_vars

C5_Witness ==
    /\ pc = "ready"
    /\ total_pages = 2
    /\ RawLabelsOf(pages) = <<TitleSchAP1, TitlePage2>>
    /\ LabelsOf(pages) = <<Sch_A_P1, Sch_A_P2>>
    /\ pages[1].auto_label = Sch_A_P1

\* the pages of pgs whose label is <pre>_P<digits>
PagesWithPrefix(pgs, pre) == {j \in DOMAIN pgs : pre \in PrefixesOf(pgs[j].label)}

\* C6: once the mapping is written, a page is multipage exactly when its
\* label is <prefix>_P<digits> and at least two pages have that prefix; a
\* lone base section is <base>_P1 and not multipage
C6_MultipageFlags ==
    pc = "ready" =>
        /\ \A i \in DOMAIN pages :
              pages[i].multipage <=>
                 \E pre \in PrefixesOf(pages[i].label) :
                    Cardinality(PagesWithPrefix(pages, pre)) >= 2
        /\ (total_pages = 1 /\ RawLabelsOf(pages) = <<TitleScheduleA>>) =>
              /\ LabelsOf(pages) = <<Schedule_A_P1>>
              /\ FlagsOf(pages) = <<FALSE>>

\* three pages, two of one prefix and flagged, and a lone base section unflagged
C6_Witness ==
    /\ pc = "ready"
    /\ total_pages = 3
    /\ LabelsOf(pages) = <<Schedule_A_P1, Schedule_A_P2, Sch_A_P1>>
    /\ FlagsOf(pages) = <<TRUE, TRUE, FALSE>>

(***************************************************************************)
(* Properties of the selection                                             *)
(***************************************************************************)

\* the entries of the list that target page p
EntriesFor(p) == {i \in DOMAIN entries : entries[i].page = p}

\* the entry that must win page p: of the greatest depth, and the last of those
WinnerFor(p) ==
    CHOOSE i \in EntriesFor(p) :
        \A j \in EntriesFor(p) :
            \/ entries[j].depth < entries[i].depth
            \/ (entries[j].depth = entries[i].depth /\ j <= i)

SelectionDone == pc = "select" /\ sel > Len(entries)

\* C7: when the selection loop is over, every page an entry targets has the
\* label (and depth) of its deepest entry, the last one among the deepest, and
\* no other page has a label; for (Sch_A, page 1, depth 0) and (P1, page 1,
\* depth 1), in either order, page 1 gets P1
C7_DeepestLastWins ==
    SelectionDone =>
        /\ \A p \in SelPages :
              IF EntriesFor(p) = {} THEN p \notin DOMAIN best_for_page
              ELSE /\ p \in DOMAIN best_for_page
                   /\ best_for_page[p].label = entries[WinnerFor(p)].label
                   /\ best_for_page[p].depth = entries[WinnerFor(p)].depth
        /\ (Len(entries) = 2
            /\ {entries[1], entries[2]} =
                  {[label |-> <<"S","c","h","_","A">>, page |-> 1, depth |-> 0],
                   [label |-> <<"P","1">>, page |-> 1, depth |-> 1]})
           => best_for_page[1].label = <<"P","1">>

\* the deeper entry came first and still holds page 1, and of two entries of
\* one depth on page 2 the later one holds it
C7_Witness ==
    /\ SelectionDone
    /\ entries = <<[label |-> <<"P","1">>, page |-> 1, depth |-> 1],
                   [label |-> <<"S","c","h","_","A">>, page |-> 1, depth |-> 0],
                   [label |-> <<"P","1">>, page |-> 2, depth |-> 0]>>
    /\ best_for_page[1].label = <<"P","1">>
    /\ best_for_page[2].label = <<"P","1">>

(***************************************************************************)
(* Properties of the editor                                                *)
(***************************************************************************)

\* the flags are those of a recomputation over the whole array pgs
FlagsRecomputed(pgs) ==
    \A i \in DOMAIN pgs :
        pgs[i].multipage <=>
            \E pre \in PrefixesOf(pgs[i].label) :
                Cardinality(PagesWithPrefix(pgs, pre)) >= 2

\* C8: a label update of page p of the mapping with a non-blank label s makes
\* the label of page p the trimmed s, as submitted (no _P1 added, no prefix
\* put before a bare marker), and its updated_label true; the flags are
\* recomputed over the whole array; no other page's label or updated_label
\* changes
C8_Step ==
    \A p \in PageArgs, s \in PayloadLabels :
        (/\ MappingExists
         /\ p \in 1..Len(pages)
         /\ s # None
         /\ Strip(s[1]) # <<>>
         /\ ApiUpdateLabel(p, s)) =>
            /\ pages'[p].label = Strip(s[1])
            /\ pages'[p].updated_label = TRUE
            /\ FlagsRecomputed(pages')
            /\ \A q \in DOMAIN pages :
                  q # p => /\ pages'[q].label = pages[q].label
                           /\ pages'[q].updated_label = pages[q].updated_label
            /\ DOMAIN pages' = DOMAIN pages

\* C8: a successful label update of page p stores the trimmed label as given,
\* sets updated_label on p, recomputes every multipage flag and changes
\* neither label nor updated_label of another page
C8_LabelEdit == [][C8_Step]_vars

\* page 2 of Schedule_A_P1, Schedule_A_P2 was given the bare label P3: it is
\* stored as P3 and neither page is multipage any more
C8_Witness ==
    /\ pc = "ready"
    /\ response = Respond(200, None)
    /\ total_pages = 2
    /\ LabelsOf(pages) = <<Schedule_A_P1, <<"P","3">> >>
    /\ pages[2].auto_label = Schedule_A_P2
    /\ pages[2].updated_label
    /\ ~pages[1].updated_label
    /\ FlagsOf(pages) = <<FALSE, FALSE>>

\* C9: once the mapping is written, no request changes the page, family,
\* auto_label or raw_label of any page, nor the number of pages
C9_Step ==
    pc = "ready" =>
        /\ DOMAIN pages' = DOMAIN pages
        /\ \A i \in DOMAIN pages :
              /\ pages'[i].auto_label = pages[i].auto_label
              /\ pages'[i].page = pages[i].page
              /\ pages'[i].family = pages[i].family
              /\ pages'[i].raw_label = pages[i].raw_label

\* C9: once the mapping is written no editor step changes auto_label, page,
\* family or raw_label of any page
C9_ExtractionFieldsFrozen == [][C9_Step]_vars

\* both pages were edited and page 1 was then restored
C9_Witness ==
    /\ pc = "ready"
    /\ total_pages = 2
    /\ response = Respond(200, Some(Schedule_A_P1))
    /\ pages[1].label = pages[1].auto_label
    /\ pages[2].label # pages[2].auto_label
    /\ pages[2].updated_label

\* C10: a restore of page p of the mapping sets its label to its auto_label
\* and its updated_label to false, touches the label and updated_label of no
\* other page and answers the restored label; restore-all does so for every
\* page; both recompute the flags over the whole array
C10_Step ==
    /\ \A p \in PageArgs :
          (MappingExists /\ p \in 1..Len(pages) /\ ApiRestoreLabel(p)) =>
              /\ pages'[p].label = pages[p].auto_label
              /\ pages'[p].updated_label = FALSE
              /\ response' = Respond(200, Some(pages[p].auto_label))
              /\ FlagsRecomputed(pages')
              /\ \A q \in DOMAIN pages :
                    q # p => /\ pages'[q].label = pages[q].label
                             /\ pages'[q].updated_label = pages[q].updated_label
    /\ (MappingExists /\ ApiRestoreAll) =>
          /\ DOMAIN pages' = DOMAIN pages
          /\ \A q \in DOMAIN pages :
                /\ pages'[q].label = pages[q].auto_label
                /\ pages'[q].updated_label = FALSE
          /\ FlagsRecomputed(pages')

\* C10: restoring page p sets its label back to auto_label and clears its
\* updated_label, for p alone; restore-all does so for every page; both
\* recompute the multipage flags
C10_Restore == [][C10_Step]_vars

\* page 2 was restored while page 1 stays edited
C10_Witness ==
    /\ pc = "ready"
    /\ total_pages = 2
    /\ response = Respond(200, Some(Schedule_A_P2))
    /\ pages[2].label = Schedule_A_P2
    /\ ~pages[2].updated_label
    /\ pages[1].label = <<"S","c","h","_","A">>
    /\ pages[1].updated_label

(***************************************************************************)
(* C11: the flag pass on its own                                           *)
(***************************************************************************)

\* the array pgs with the flags f in place of its multipage fields
WithFlags(pgs, f) == [i \in DOMAIN pgs |-> [pgs[i] EXCEPT !.multipage = f[i]]]

\* the arrays that differ from the pages array in their multipage fields only
FlagVariants == {WithFlags(pages, f) : f \in [DOMAIN pages -> BOOLEAN]}

\* C11: _apply_multipage_flags is idempotent and touches only the multipage
\* field: on the pages array under every setting of its flags, a second
\* application returns what the first returned, and the first changes no
\* label, auto_label, updated_label, family, page or raw_label
C11_FlagPassIdempotent ==
    \A pgs \in FlagVariants :
        LET once == ApplyMultipageFlags(pgs)
        IN  /\ ApplyMultipageFlags(once) = once
            /\ DOMAIN once = DOMAIN pgs
            /\ \A i \in DOMAIN pgs :
                  /\ once[i].label = pgs[i].label
                  /\ once[i].auto_label = pgs[i].auto_label
                  /\ once[i].updated_label = pgs[i].updated_label
                  /\ once[i].family = pgs[i].family
                  /\ once[i].page = pgs[i].page
                  /\ once[i].raw_label = pgs[i].raw_label

\* the pass has run again after an edit of page 2 and has withdrawn the flag
\* of page 1, whose label still has the suffix form
C11_Witness ==
    /\ pc = "ready"
    /\ Len(pages) = 2
    /\ pages[1].label = Schedule_A_P1
    /\ ~pages[1].multipage
    /\ pages[2].updated_label

(***************************************************************************)
(* C12: the page numbers of the array                                      *)
(***************************************************************************)

\* C12: from the moment build_bookmark_gt has made the pages array, through
\* the selection, the grouping and every edit and restore, the array has
\* total_pages elements and the element at position i (counted from 1) has
\* page = i
C12_PageNumbers ==
    pc # "start" =>
        /\ Len(pages) = total_pages
        /\ \A i \in DOMAIN pages : pages[i].page = i

\* a two-page mapping whose page 2 got no bookmark and whose page 1 was edited
C12_Witness ==
    /\ pc = "ready"
    /\ total_pages = 2
    /\ pages[1].family = Family
    /\ pages[1].updated_label
    /\ pages[2].family = "Other"

(***************************************************************************)
(* C13: a document without an outline                                      *)
(***************************************************************************)

\* build_bookmark_gt took the branch without /Outlines or without /First
NoOutlineRun == pc \in {"group", "ready"} /\ raw_pages = None

\* C13: without an outline (or with an outline that has no first node)
\* build_bookmark_gt runs to the end (every step of the grouping pass and the
\* final write can be taken) and every page record stays the unlabeled
\* sentinel: family, label, auto_label and raw_label Other, updated_label and
\* multipage false
C13_NoOutline ==
    NoOutlineRun =>
        /\ pc = "group" => ENABLED (GroupStep \/ ApplyFlagsAndSave)
        /\ Len(pages) = total_pages
        /\ \A i \in DOMAIN pages :
              /\ pages[i].family = "Other"
              /\ pages[i].label = <<"O","t","h","e","r">>
              /\ pages[i].auto_label = <<"O","t","h","e","r">>
              /\ pages[i].raw_label = <<"O","t","h","e","r">>
              /\ pages[i].updated_label = FALSE
              /\ pages[i].multipage = FALSE

\* the mapping of a document of several pages and no outline has been written
C13_Witness == pc = "ready" /\ raw_pages = None /\ total_pages >= 2

(***************************************************************************)
(* Properties of the outline walk                                          *)
(***************************************************************************)

\* the object whose /First or /Next leads to object n
LinkedFrom(n) ==
    CHOOSE m \in DOMAIN outline : outline[m].first = Some(n) \/ outline[m].next = Some(n)

\* the links that lead from first_node to object n
RECURSIVE PathTo(_)
PathTo(n) ==
    IF n = 1
    THEN <<>>
    ELSE Append(PathTo(LinkedFrom(n)),
                IF outline[LinkedFrom(n)].first = Some(n) THEN "first" ELSE "next")

\* object n is a node of the outline: a dictionary reached from first_node
\* through dictionaries
RECURSIVE IsOutlineNode(_)
IsOutlineNode(n) ==
    /\ outline[n].dict
    /\ n = 1 \/ IsOutlineNode(LinkedFrom(n))

\* top-level nodes have depth 0, a child one more than its parent
DepthInOutline(n) == Cardinality({i \in DOMAIN PathTo(n) : PathTo(n)[i] = "first"})

\* a comes before b in depth-first pre-order: b lies below or after a, or
\* the two part ways at a node whose children lead to a and whose following
\* siblings lead to b
PreOrderBefore(a, b) ==
    LET pa == PathTo(a)
        pb == PathTo(b)
    IN  \/ Len(pa) < Len(pb) /\ SubSeq(pb, 1, Len(pa)) = pa
        \/ \E i \in DOMAIN pa \cap DOMAIN pb :
              /\ SubSeq(pa, 1, i - 1) = SubSeq(pb, 1, i - 1)
              /\ pa[i] = "first"
              /\ pb[i] = "next"

\* the nodes with a non-empty label and a resolvable page
NodesWithEntry ==
    {n \in DOMAIN outline :
        /\ IsOutlineNode(n)
        /\ NodeLabel(outline[n], normalize) \notin {None, Some(<<>>)}
        /\ NodePage(outline[n], page_ref_map) # None}

WalkResult ==
    /\ Len(source) = Len(entries)
    /\ {source[i] : i \in DOMAIN source} = NodesWithEntry
    /\ \A i, j \in DOMAIN source : i < j => PreOrderBefore(source[i], source[j])
    /\ \A i \in DOMAIN entries :
          entries[i] = [label |-> NodeLabel(outline[source[i]], normalize)[1],
                        page  |-> NodePage(outline[source[i]], page_ref_map)[1],
                        depth |-> DepthInOutline(source[i])]

\* the nodes of the outline
OutlineNodes == {n \in DOMAIN outline : IsOutlineNode(n)}

\* node n lies below node c: the path to n goes through /First of c
BelowNode(c, n) ==
    LET down == Append(PathTo(c), "first")
    IN  Len(down) <= Len(PathTo(n)) /\ SubSeq(PathTo(n), 1, Len(down)) = down

\* the nodes node_to_entries has been called on
EnteredNodes ==
    IF pc = "collect" THEN {}
    ELSE IF pc = "collected" THEN OutlineNodes
    ELSE LET cur == stack[Len(stack)].cur
         IN  {n \in OutlineNodes :
                \/ PreOrderBefore(n, cur)
                \/ pc = "next" /\ (n = cur \/ BelowNode(cur, n))}

\* the nodes whose loop iteration has ended
LeftNodes == EnteredNodes \ {stack[i].cur : i \in DOMAIN stack}

\* the calls of node_to_entries and the loop iterations still to come
WalkRemaining ==
    (IF pc = "collect" THEN 1 ELSE 0)
    + (Cardinality(OutlineNodes) - Cardinality(EnteredNodes))
    + (Cardinality(OutlineNodes) - Cardinality(LeftNodes))

\* the walk has a step to take: it is about to start, or it stands at a node
\* of the outline inside a sibling loop
WalkCanStep ==
    \/ pc = "collect"
    \/ /\ pc \in {"node", "next"}
       /\ stack # <<>>
       /\ \A i \in DOMAIN stack : stack[i].cur \in OutlineNodes

\* C14: on every outline tree the walk returns (until it has returned it
\* can take a step, and every step lowers the natural number
\* WalkRemaining), and what it returns has exactly one entry for each node
\* with a non-empty label and a resolvable page, in depth-first pre-order,
\* with depth 0 at the top level and one more for each level below; nodes
\* without a title or a page give no entry and do not hide their children
\* or siblings
C14_PreOrderWalk ==
    /\ [](pc = "collected" => WalkResult)
    /\ [](pc # "collected" => WalkCanStep)
    /\ [](WalkRemaining >= 0)
    /\ [][WalkRemaining' < WalkRemaining]_vars

\* node 1 has no title and gave no entry; its child (object 3) and then its
\* sibling (object 2) did
C14_Witness ==
    /\ pc = "collected"
    /\ Len(outline) = 3
    /\ outline[1].title = None
    /\ outline[1].first = Some(3)
    /\ outline[1].next = Some(2)
    /\ source = <<3, 2>>
    /\ entries[1].depth = 1
    /\ entries[2].depth = 0

(***************************************************************************)
(* Properties of the page resolver                                         *)
(***************************************************************************)

\* the destination the one node of the outline hands to the resolver, if any
DestOfNode ==
    IF outline[1].dest # None THEN outline[1].dest
    ELSE IF outline[1].action # None /\ outline[1].action[1].dict
         THEN outline[1].action[1].D
         ELSE None

\* the elements of the array a destination is (itself or through its
\* reference), None for a destination that is no array
ArrayOf(dest) ==
    IF dest.kind = "array" THEN Some(dest.elems)
    ELSE IF dest.kind = "ref" THEN Some(dest.to)
    ELSE None

\* the destination is a non-empty array whose first element is an indirect
\* reference with a key of the page map
ResolvableDest(dest) ==
    /\ ArrayOf(dest) # None
    /\ ArrayOf(dest)[1] # <<>>
    /\ ArrayOf(dest)[1][1].kind = "indirect"
    /\ <<ArrayOf(dest)[1][1].idnum, ArrayOf(dest)[1][1].generation>> \in DOMAIN page_ref_map

\* C15: _page_number_from_dest returns the 0-based index of the page plus one
\* (page i of the document has the key (i, 0) and the index i - 1) exactly
\* when the destination is a non-empty array whose first element is an
\* indirect reference with a key of the page map; for every other
\* destination it returns None, and the node gets no entry
C15_PageFromDest ==
    (pc \in {"next", "collected"} /\ Len(outline) = 1) =>
        IF DestOfNode # None /\ ResolvableDest(DestOfNode[1])
        THEN /\ Len(entries) = 1
             /\ entries[1].page = ArrayOf(DestOfNode[1])[1][1].idnum
             /\ entries[1].page - 1 \in 0..(total_pages - 1)
        ELSE entries = <<>>

\* page 2 of a document whose page 1 has no indirect reference was resolved
\* from the /D of an action
C15_Witness ==
    /\ pc = "collected"
    /\ Len(outline) = 1
    /\ outline[1].dest = None
    /\ DOMAIN page_ref_map = {PageKey(2)}
    /\ Len(entries) = 1
    /\ entries[1].page = 2

(***************************************************************************)
(* Properties of the title normaliser                                      *)
(***************************************************************************)

Normalized == Len(results) >= 1

Sch_NEC_Form_1040NR == <<"S","c","h","_","N","E","C","_","(","F","o","r","m","_","1","0","4","0","N","R",")">>

Schedule_NEC_Form_1040NR == <<"S","c","h","e","d","u","l","e","_","N","E","C","_","(","F","o","r","m","_","1","0","4","0","N","R",")">>

\* C16 as stated: both titles with a schedule and a form flavor normalise to
\* Sch_NEC_(Form_1040NR)
C16_Original ==
    (Normalized /\ raw_title \in {TitleScheduleNECForm1040NR, TitleSchNECForm1040NR})
    => results[1] = Sch_NEC_Form_1040NR

\* C16 amended: a title with a schedule reference and a form flavor is
\* sanitised as it stands, the schedule word spelled as the title spells it:
\* "Schedule NEC (Form 1040NR)" gives Schedule_NEC_(Form_1040NR) and
\* "Sch NEC (Form 1040NR)" gives Sch_NEC_(Form_1040NR)
C16_BothFacetsSanitized ==
    Normalized =>
        /\ raw_title = TitleScheduleNECForm1040NR => results[1] = Schedule_NEC_Form_1040NR
        /\ raw_title = TitleSchNECForm1040NR => results[1] = Sch_NEC_Form_1040NR

C16_Witness ==
    /\ raw_title = TitleScheduleNECForm1040NR
    /\ results = <<Schedule_NEC_Form_1040NR>>

\* the label the claim gives a title with one facet
FacetLabelClaimed ==
    CASE raw_title = TitleScheduleA -> <<"S","c","h","_","A">>
      [] raw_title = TitleSchK1 -> <<"S","c","h","_","K">>
      [] raw_title = TitleForm1040SR -> <<"F","o","r","m","_","1","0","4","0","_","S","R">>
      [] raw_title = TitleForm1040NR -> <<"F","o","r","m","_","1","0","4","0","N","R">>
      [] raw_title = TitleForm1040 -> <<"F","o","r","m","_","1","0","4","0">>
      [] raw_title = TitleUSForm1040 -> <<"F","o","r","m","_","1","0","4","0">>

OneFacetTitles ==
    {TitleScheduleA, TitleSchK1, TitleForm1040SR, TitleForm1040NR, TitleForm1040,
     TitleUSForm1040}

FacetTitles == OneFacetTitles \cup {TitleScheduleNECForm1040NR, TitleSchNECForm1040NR}

\* the title as the patterns see it: trimmed, dashes as hyphens
TrimmedTitle == Replace(Replace(Strip(raw_title), EnDash, "-"), EmDash, "-")

\* the numbers N such that the whole trimmed title is a prefix P, Page, Pg
\* or P. in any letter case, then at least minws whitespace characters, then
\* decimal digits or a roman numeral of value N
MarkerNumbers(minws) ==
    LET s == Lower(TrimmedTitle)
    IN  {IF AllChars(SubSeq(s, j + 1, Len(s)), DigitSet)
         THEN ParseInt(SubSeq(s, j + 1, Len(s)))
         ELSE RomanToInt(SubSeq(s, j + 1, Len(s))) :
           <<i, j>> \in {ij \in (1..Len(s)) \X (1..Len(s)) :
               /\ ij[1] <= ij[2]
               /\ ij[2] < Len(s)
               /\ ij[2] - ij[1] >= minws
               /\ SubSeq(s, 1, ij[1]) \in {<<"p">>, <<"p","a","g","e">>, <<"p","g">>, <<"p",".">>}
               /\ \A k \in (ij[1] + 1)..ij[2] : s[k] \in {" ", "\t", "\n"}
               /\ \/ \A k \in (ij[2] + 1)..Len(s) : s[k] \in DigitSet
                  \/ \A k \in (ij[2] + 1)..Len(s) : s[k] \in RomanLowerSet}}

\* the title is a page marker when minws whitespace characters are asked
\* for: it gets P<N>; any other title gets the fallback sanitisation
MarkerOrFallback(minws) ==
    IF MarkerNumbers(minws) # {}
    THEN \E n \in MarkerNumbers(minws) : results[1] = <<"P">> \o FormatInt(n)
    ELSE results[1] = NormalizeTitleBasic(TrimmedTitle)

\* C18 as stated: whitespace is required between the prefix and the number
C18_Original == (Normalized /\ raw_title \notin FacetTitles) => MarkerOrFallback(1)

\* C18 amended: the whitespace between the prefix and the number is
\* optional.  A title gets P<N> from the page-marker rule exactly when the
\* whole trimmed title is a prefix P, Page, Pg or P. (any letter case),
\* optional whitespace, and decimal digits or a roman numeral of value N;
\* every other title gets the fallback sanitisation
C18_PageMarker == Normalized => MarkerOrFallback(0)

\* "Pg2" has no whitespace and is a page marker
C18_Witness ==
    /\ raw_title = <<"P","g","2">>
    /\ results = <<P2>>

Separators == {",", " ", "\t", "\n", "-", EnDash, EmDash, "_"}

\* the characters of a string that are no separator, in their order
KeptChars(s) == SelectSeq(s, LAMBDA c : c \notin Separators)

\* the runs of separators of the title that have a kept character on both
\* sides, counted by their first position
InnerRuns ==
    {i \in DOMAIN raw_title :
        /\ raw_title[i] \in Separators
        /\ i > 1 /\ raw_title[i - 1] \notin Separators
        /\ \E j \in DOMAIN raw_title : j > i /\ raw_title[j] \notin Separators}

\* C19: a title that is no page marker is sanitised: the result has no
\* comma, whitespace, hyphen or dash, no two underscores in a row and no
\* underscore at either end; its other characters are those of the title in
\* their order and case, and it has one underscore for each run of
\* separators between two of them
C19_Fallback ==
    (Normalized /\ MarkerNumbers(0) = {}) =>
        LET r == results[1]
        IN  /\ \A i \in DOMAIN r : r[i] \notin (Separators \ {"_"})
            /\ \A i \in DOMAIN r : i < Len(r) => ~(r[i] = "_" /\ r[i + 1] = "_")
            /\ r # <<>> => r[1] # "_" /\ r[Len(r)] # "_"
            /\ KeptChars(r) = KeptChars(raw_title)
            /\ Cardinality({i \in DOMAIN r : r[i] = "_"}) = Cardinality(InnerRuns)

C19_Witness ==
    /\ raw_title = TitleDashes
    /\ results = <<<<"W","a","g","e","s","_","S","a","l","a","r","i","e","s","_","T","i","p","s","_","2","0","2","3">>>>

\* C20: a label of the form P<N> that comes out of the normaliser is what
\* the normaliser makes of it again; "P2" gives P2, and "Page 2" gives P2
\* both times
C20_MarkerIdempotent ==
    /\ (Normalized /\ raw_title = P2) => results[1] = P2
    /\ (Len(results) = 2 /\ raw_title = TitlePage2) => results = <<P2, P2>>
    /\ (/\ Len(results) = 2
        /\ Len(results[1]) >= 2
        /\ results[1][1] = "P"
        /\ \A i \in 2..Len(results[1]) : results[1][i] \in DigitSet) => results[2] = results[1]

\* "Pg II" was normalised twice
C20_Witness ==
    /\ raw_title = TitlePgII
    /\ results = <<P2, P2>>

(***************************************************************************)
(* Properties of the roman numeral decoder                                 *)
(***************************************************************************)

StandardNumerals == [n \in 1..LargestNumeral |-> StandardNumeral(n)]

WellFormedNumerals == Range(StandardNumerals)

Decoded == decoded # None

\* the value the scan gives a string of two characters
TwoSymbolValue(s) ==
    LET prev == RomanValue(s[1])
        v    == RomanValue(s[2])
    IN  prev + (IF v > prev THEN v - 2 * prev ELSE v)

\* C21: _roman_to_int returns an integer for every string; for a well-formed
\* numeral in subtractive notation, in either case, it returns the number the
\* numeral stands for (IV = 4, IX = 9, XL = 40, MCM = 1900); on one character
\* it returns vals.get of it and on two it adds value - 2*previous when the
\* second value exceeds the first and value otherwise.
C21_RomanToInt ==
    Decoded =>
        /\ decoded[1] \in Int
        /\ Upper(numeral) \in WellFormedNumerals =>
              /\ decoded[1] \in 1..LargestNumeral
              /\ StandardNumerals[decoded[1]] = Upper(numeral)
        /\ Upper(numeral) = <<"I", "V">> => decoded[1] = 4
        /\ Upper(numeral) = <<"I", "X">> => decoded[1] = 9
        /\ Upper(numeral) = <<"X", "L">> => decoded[1] = 40
        /\ Upper(numeral) = <<"M", "C", "M">> => decoded[1] = 1900
        /\ Len(numeral) = 1 => decoded[1] = RomanValue(Upper(numeral)[1])
        /\ Len(numeral) = 2 => decoded[1] = TwoSymbolValue(Upper(numeral))

\* "mcm" has been decoded
C21_Witness == Decoded /\ numeral = <<"m", "c", "m">> /\ decoded[1] = 1900

(***************************************************************************)
(* Properties of the upload                                                *)
(***************************************************************************)

\* C22: an upload of a file whose name ends in .pdf stores the file, starts
\* build_bookmark_gt on it and is answered with the redirect to the editor.
C22_Original ==
    [][\A file \in UploadFiles, ultratax_mode \in BOOLEAN :
          (IsPdfUpload(file) /\ Upload(file, ultratax_mode)) =>
              /\ SecureFilename(file[1]) \in source_dir'
              /\ pc' = "start"
              /\ response' = RedirectTo("edit")]_vars

\* a.pdf has been uploaded and the request has failed
C22_Witness == NameAPdf \in source_dir /\ response = ServerError /\ pc = "idle"

(***************************************************************************)
(* Properties of the curated index                                         *)
(***************************************************************************)

\* the positions of the records of doc#page in an index
RecordsOf(index, doc, page) ==
    {i \in DOMAIN index : index[i].document = doc /\ index[i].page = page}

\* the records of an index that are not of doc and one of the pages ps
WithoutPages(index, doc, ps) ==
    SelectSeq(index, LAMBDA rec : ~(rec.document = doc /\ rec.page \in ps))

\* doc#page has exactly one record in the index, the one of entry e
HoldsRecordOf(index, doc, e) ==
    /\ Cardinality(RecordsOf(index, doc, e.page)) = 1
    /\ \A i \in RecordsOf(index, doc, e.page) :
          /\ index[i].label = CanonicalizeLabel(e.label)
          /\ index[i].auto_label = e.auto_label
          /\ index[i].updated_label = e.updated_label
          /\ index[i].multipage = e.multipage
          /\ index[i].raw_label = e.raw_label

AtMostOneRecordPerPage ==
    \A i, j \in DOMAIN curated :
        (curated[i].document = curated[j].document /\ curated[i].page = curated[j].page)
            => i = j

\* the pages of the mapping of doc that a curate-all request writes
PagesCuratedByAll(doc) ==
    {mappings[doc][i].page : i \in {j \in DOMAIN mappings[doc] : CuratedByAll(mappings[doc][j])}}

\* the request answered last was a curate-page request that wrote a record
CuratedAPage == response' = Respond(200, None) /\ mappings' = mappings

\* the request answered last was a curate-all request of a mapping
CuratedAll == "count" \in DOMAIN response'

C23_Step ==
    /\ CuratedAPage =>
          \A doc \in DOMAIN mappings, page \in CuratePageArgs :
              ApiCuratePage(doc, page) =>
                  /\ HoldsRecordOf(curated', doc,
                                   mappings[doc][FirstEntryOf(mappings[doc], page)])
                  /\ WithoutPages(curated', doc, {page}) = WithoutPages(curated, doc, {page})
    /\ CuratedAll =>
          \A doc \in DOMAIN mappings :
              ApiCurateAll(doc) =>
                  /\ \A i \in DOMAIN mappings[doc] :
                        CuratedByAll(mappings[doc][i]) =>
                            HoldsRecordOf(curated', doc, mappings[doc][i])
                  /\ WithoutPages(curated', doc, PagesCuratedByAll(doc))
                        = WithoutPages(curated, doc, PagesCuratedByAll(doc))
    /\ curated' # curated =>
          \E doc \in DOMAIN mappings :
              \/ CuratedAll /\ ApiCurateAll(doc)
              \/ CuratedAPage /\ \E page \in CuratePageArgs : ApiCuratePage(doc, page)

\* C23: starting from an empty index, the index never holds two records of
\* one document and page; a curation of a page leaves exactly one record of
\* it, built from the page's entry as the mapping has it at that moment, and
\* keeps the records of every other page and document as they are and in
\* their order; a step that curates nothing changes no record.
C23_CuratedIndex == []AtMostOneRecordPerPage /\ [][C23_Step]_vars

\* page 1 of a.pdf was curated as Schedule_A_P1, relabelled and curated
\* again: the index holds the records of b.pdf page 1 and of the second
\* curation, and not the record of the first
C23_Witness ==
    /\ Len(curated) = 2
    /\ curated[1].document = NameBPdf
    /\ curated[2].document = NameAPdf
    /\ curated[2].page = 1
    /\ curated[2].auto_label = Schedule_A_P1
    /\ curated[2].label = CanonicalizeLabel(TextSchA)
    /\ curated[2].updated_label

(***************************************************************************)
(* Properties of the suggestion index                                      *)
(***************************************************************************)

\* C24: once a version with a built index has been activated through
\* api_set_active_version, every suggestion request is answered from the
\* index of that version.
C24_Original ==
    [][(/\ active_version # None
        /\ active_version[1] \in built_indexes
        /\ ApiSuggest)
          => response' = SuggestedFrom(active_version[1])]_vars

\* version 2 is active and built, and the last suggestions came from the
\* index of version 1, loaded before
C24_Witness ==
    /\ active_version = Some(2)
    /\ 2 \in built_indexes
    /\ index_cache = Some(1)
    /\ response = SuggestedFrom(1)

(***************************************************************************)
(* C25: the refusals of api_update_label                                   *)
(***************************************************************************)

PagesOfMapping == {pages[i].page : i \in DOMAIN pages}

BlankPayload(s) == s = None \/ Strip(s[1]) = <<>>

C25_Step ==
    \A p \in PageArgs, s \in PayloadLabels :
        ApiUpdateLabel(p, s) =>
            /\ ~MappingExists => response'.code = 404
            /\ (MappingExists /\ BlankPayload(s)) => response'.code = 400
            /\ (MappingExists /\ ~BlankPayload(s) /\ p \notin PagesOfMapping)
                  => response'.code = 404
            /\ (MappingExists /\ ~BlankPayload(s) /\ p \in PagesOfMapping)
                  => response'.code = 200
            /\ response'.code \in {400, 404} => pages' = pages

Unedited(e) == ~e.updated_label /\ e.label = e.auto_label

C27_Step ==
    ApplyFlagsAndSave => \A i \in DOMAIN pages' : Unedited(pages'[i])

\* C27: in every state of an extraction followed by label updates, form
\* posts and restores, a page whose updated_label is false has label =
\* auto_label; when the extraction writes the mapping, every page has
\* updated_label false and label = auto_label.
C27_UpdatedLabel ==
    /\ [](\A i \in DOMAIN pages : ~pages[i].updated_label => pages[i].label = pages[i].auto_label)
    /\ [][C27_Step]_vars

\* page 1 carries the curator's label P3 and page 2 was restored
C27_Witness ==
    /\ MappingExists
    /\ total_pages = 2
    /\ pages[1].updated_label
    /\ pages[1].label = <<"P", "3">>
    /\ pages[1].auto_label = Schedule_A_P1
    /\ Unedited(pages[2])
    /\ response.code = 200
    /\ response.label = Some(pages[2].label)

(***************************************************************************)
(* C26: label and raw_label                                                *)
(***************************************************************************)

\* the selected labels have just been written into pages and bookmarks
Assigned == pc = "group" /\ idx = 1 /\ raw_pages # None

\* C26: when the selected labels are written, every bookmark-labelled page
\* has label = normalize(raw_label), and a page is bookmark-labelled in pages
\* exactly when it is in the bookmarks array.
C26_Original ==
    Assigned =>
        \A i \in DOMAIN pages :
            /\ pages[i].family = Family => pages[i].label = NormalizeTitle(pages[i].raw_label)
            /\ pages[i].family = Family <=> raw_pages[1][i].family = Family

\* page 1 has the label of "Schedule A" and the raw label of the separator
C26_Witness ==
    /\ pc = "ready"
    /\ Len(pages) >= 1
    /\ pages[1].label = Schedule_A_P1
    /\ pages[1].raw_label = TitleSeparator

(***************************************************************************)
(* C28: page suffixes after the grouping pass                              *)
(***************************************************************************)

\* the trailing P<digits> of a label that ends so
MarkerOf(lbl) == SubSeq(lbl, Len(lbl) - TrailingDigits(lbl), Len(lbl))

\* two bookmark-family pages carry the same label <prefix>_P<n>
SameSuffixedLabel(i, j) ==
    /\ i # j
    /\ pages[i].family = Family
    /\ pages[j].family = Family
    /\ HasPSuffix(pages[i].label)
    /\ pages[i].label = pages[j].label

\* C28 as stated: after extraction no two pages of the document carry the
\* same <prefix>_P<n> label
C28_Original ==
    pc = "ready" => \A i \in DOMAIN pages, j \in DOMAIN pages : ~SameSuffixedLabel(i, j)

\* the grouping pass never renumbers: the page ends with the marker of its own
\* bookmark, P1 for a base section
C28_Step ==
    AtFamilyPage =>
        LET lbl == pages[idx].label
            new == pages'[idx].label
        IN  /\ BaseLabel(lbl) => HasPSuffix(new) /\ MarkerOf(new) = <<"P", "1">>
            /\ BareMarker(lbl) => MarkerOf(new) = lbl
            /\ GroupPrefixesOf(lbl) # {} => new = lbl

\* C28 amended: the grouping pass never renumbers. Every bookmark-family page
\* ends with the page suffix of its own bookmark: P1 for a base section, the
\* bookmark's own P<n> for a bare marker, the label as it is when it is already
\* <prefix>_P<n>. Pages whose bookmarks give the same prefix and number carry
\* the same label.
C28_NoRenumbering == [][C28_Step]_vars

\* pages 1 and 2 were both bookmarked "Schedule A" and both are Schedule_A_P1
C28_Witness ==
    /\ pc = "ready"
    /\ Len(pages) >= 2
    /\ pages[1].raw_label = TitleScheduleA
    /\ pages[2].raw_label = TitleScheduleA
    /\ SameSuffixedLabel(1, 2)
    /\ pages[1].label = Schedule_A_P1

(***************************************************************************)
(* C30: the labels the grouping pass leaves                                *)
(***************************************************************************)

\* the grouping pass has processed page i
Grouped(i) == i \in DOMAIN pages /\ (pc = "ready" \/ (pc = "group" /\ i < idx))

\* a label the grouping pass leaves on a bookmark-family page
GroupedLabel(lbl) == HasPSuffix(lbl) \/ BareMarker(lbl) \/ lbl = Other

\* every processed bookmark-family page has a label that ends in _P<digits>,
\* is a bare P<digits> or is Other
C30_Labels ==
    \A i \in DOMAIN pages :
        (Grouped(i) /\ pages[i].family = Family) => GroupedLabel(pages[i].label)

\* a bare marker is left on a page only when no prefix is active
C30_Step ==
    (AtFamilyPage /\ BareMarker(pages'[idx].label)) => current_prefix = None

\* C30: after the grouping pass every bookmark-family page has a label that
\* ends in _P<digits>, is a bare P<digits> marker or is Other, so none keeps
\* an un-suffixed base-section label, and a bare P<digits> marker survives
\* only on a page the pass reached with no active prefix.
C30_GroupedLabels == []C30_Labels /\ [][C30_Step]_vars

\* the pass is over: page 1 kept its bare marker P2, page 2 is a base section
\* that became Schedule_A_P1
C30_Witness ==
    /\ pc = "ready"
    /\ Len(pages) >= 2
    /\ pages[1].family = Family
    /\ pages[1].label = P2
    /\ pages[2].raw_label = TitleScheduleA
    /\ pages[2].label = Schedule_A_P1

(***************************************************************************)
(* C29: two concurrent label edits                                         *)
(***************************************************************************)

\* requests 1 and 2 were for different pages and both returned ok
BothReturnedOk ==
    /\ requests # <<>>
    /\ \A t \in {1, 2} : requests[t].at = "done" /\ requests[t].code = 200
    /\ requests[1].page # requests[2].page

\* the stored mapping carries the edit of request t
Stored(t) ==
    /\ file_text.json
    /\ \E k \in DOMAIN pages :
          /\ pages[k].page = requests[t].page
          /\ pages[k].label = requests[t].new_label
          /\ pages[k].updated_label

\* C29: once two concurrent api_update_label requests for different pages of
\* one mapping have both returned ok, the stored mapping carries both labels
\* with updated_label true.
C29_Original == BothReturnedOk => Stored(1) /\ Stored(2)

\* both requests returned ok and the mapping is a JSON document without the
\* edit of request 1
C29_Witness == BothReturnedOk /\ file_text.json /\ ~Stored(1) /\ Stored(2)

====
